---- MODULE Spec2Model ----
(***************************************************************************)
(* OrderWatcher (src/unnamed/part_000): the watched orders, the dependency *)
(* index, the emitted-state memo, the subscription and the expiration      *)
(* queue, as a state machine with one action per public operation,         *)
(* handler and timer callback.                                             *)
(***************************************************************************)
EXTENDS Integers, Sequences, FiniteSets, TLC

VARIABLES
    orderByOrderHash,              \* W: orderHash -> SignedOrder
    dependentOrderHashes,          \* D: maker -> token -> set of orderHash
    orderStateByOrderHashCache,    \* M: orderHash -> last emitted OrderState
    callbackIfExists,              \* the subscriber, or "undefined"
    cleanupJobIntervalIdIfExists,  \* the cleanup timer's handle, or "undefined"
    eventWatcherSubscribed,        \* the event listener is attached
    expirationWatcherSubscribed,   \* the expiration listener is attached
    cleanupTimerActive,            \* the cleanup interval is running
    expiration,                    \* ExpirationQueue: orderHash -> expirationMs
    balanceStore,                  \* C.bal: <<token, owner>> -> amount
    proxyAllowanceStore,           \* C.allow: <<token, owner>> -> amount
    filledTakerAmountStore,        \* C.filled: orderHash -> amount
    cancelledTakerAmountStore,     \* C.cancelled: orderHash -> amount
    chain,                         \* the chain client's current answers
    dispatch,                      \* the event handler's suspended emission
    sweep,                         \* the cleanup job's suspended emission
    nowSec,                        \* the wall clock, in seconds
    envLeft,                       \* how many more moves the environment makes
    universe,                      \* the orders the user of this run holds
    rejected,                      \* the last step was a public call that threw
                                   \* and left the watcher as it was
    thrown,                        \* what the last step threw, or "none"
    called                         \* the subscriber call the last step made

vars == <<orderByOrderHash, dependentOrderHashes, orderStateByOrderHashCache,
          callbackIfExists, cleanupJobIntervalIdIfExists, eventWatcherSubscribed,
          expirationWatcherSubscribed, cleanupTimerActive, expiration,
          balanceStore, proxyAllowanceStore, filledTakerAmountStore,
          cancelledTakerAmountStore, chain, dispatch, sweep, nowSec,
          envLeft, universe, rejected, thrown, called>>

----------------------------------------------------------------------------
\* Bounds and the universe of inputs

MaxEnvSteps == 2

milisecondsInASecond == 1000

ExpirationMarginMs == 0

Undefined == "undefined"

ZRX == "ZRX"

Tokens == {"T", ZRX}

Addresses == {"A", "B"}

Hashes == {"h1", "h2", "h3"}

\* A run's user holds two of the orders.
Universes == {{"h1", "h2"}, {"h1", "h3"}}

MalformedHash == "not-a-hash"

Callbacks == {"cb1", "cb2"}

\* The signed orders of the universe, by the hash getOrderHashHex gives them:
\* h1 and h2 share maker A, h2 sells ZRX itself, h3 is another maker's.
OrderOf ==
    [h \in Hashes |->
        CASE h = "h1" -> [maker |-> "A", makerTokenAddress |-> "T",
                          taker |-> "B", takerTokenAddress |-> ZRX,
                          makerFee |-> 0, takerFee |-> 0,
                          expirationUnixTimestampSec |-> 1,
                          schemaOk |-> TRUE, signatureOk |-> TRUE]
          [] h = "h2" -> [maker |-> "A", makerTokenAddress |-> ZRX,
                          taker |-> "B", takerTokenAddress |-> "T",
                          makerFee |-> 1, takerFee |-> 1,
                          expirationUnixTimestampSec |-> 2,
                          schemaOk |-> TRUE, signatureOk |-> TRUE]
          [] OTHER    -> [maker |-> "B", makerTokenAddress |-> "T",
                          taker |-> "A", takerTokenAddress |-> ZRX,
                          makerFee |-> 0, takerFee |-> 1,
                          expirationUnixTimestampSec |-> 2,
                          schemaOk |-> TRUE, signatureOk |-> TRUE]]

ValidOrders == {OrderOf[h] : h \in Hashes}

\* What addOrder may be handed: the valid orders, an order that fails the
\* schema and one whose signature is not the maker's.
InputOrders ==
    ValidOrders
        \cup {[OrderOf["h1"] EXCEPT !.schemaOk = FALSE],
              [OrderOf["h1"] EXCEPT !.signatureOk = FALSE]}

\* The hash covers every field of the order but the signature.
getOrderHashHex(signedOrder) ==
    CHOOSE h \in Hashes :
        [OrderOf[h] EXCEPT !.signatureOk = signedOrder.signatureOk,
                           !.schemaOk = signedOrder.schemaOk] = signedOrder

getZRXTokenAddress == ZRX

----------------------------------------------------------------------------
\* Partial maps (JavaScript objects used as dictionaries)

EmptyMap == [x \in {} |-> 0]

\* f[k] = v
MapSet(f, k, v) == (k :> v) @@ f

\* delete f[k]
MapDel(f, k) == [x \in (DOMAIN f) \ {k} |-> f[x]] @@ EmptyMap

\* A JavaScript Set: its members in insertion order.
EmptySet == <<>>

Members(set) == {set[i] : i \in 1..Len(set)}

SetAdd(set, x) == IF x \in Members(set) THEN set ELSE Append(set, x)

RemoveAt(set, i) == SubSeq(set, 1, i - 1) \o SubSeq(set, i + 1, Len(set))

SetDelete(set, x) ==
    IF x \in Members(set)
    THEN RemoveAt(set, CHOOSE i \in 1..Len(set) : set[i] = x)
    ELSE set

\* OrderState values; NullState stands for a missing second argument.
NoRelevantState == <<>>

NullState ==
    [isValid |-> FALSE, orderHash |-> "null", error |-> "null",
     relevantState |-> NoRelevantState]

NoCall == [cb |-> Undefined, err |-> "null", state |-> NullState,
           tornDown |-> FALSE]

----------------------------------------------------------------------------
\* The watcher's fields as one record, so that an operation can be applied
\* inside another (removeOrder inside _onOrderExpired, unsubscribe inside a
\* subscriber's callback).

Cur ==
    [orderByOrderHash |-> orderByOrderHash,
     dependentOrderHashes |-> dependentOrderHashes,
     orderStateByOrderHashCache |-> orderStateByOrderHashCache,
     callbackIfExists |-> callbackIfExists,
     cleanupJobIntervalIdIfExists |-> cleanupJobIntervalIdIfExists,
     eventWatcherSubscribed |-> eventWatcherSubscribed,
     expirationWatcherSubscribed |-> expirationWatcherSubscribed,
     cleanupTimerActive |-> cleanupTimerActive,
     expiration |-> expiration,
     balanceStore |-> balanceStore,
     proxyAllowanceStore |-> proxyAllowanceStore,
     filledTakerAmountStore |-> filledTakerAmountStore,
     cancelledTakerAmountStore |-> cancelledTakerAmountStore,
     thrown |-> "none",
     called |-> NoCall]

Becomes(s) ==
    /\ ~rejected
    /\ orderByOrderHash' = s.orderByOrderHash
    /\ dependentOrderHashes' = s.dependentOrderHashes
    /\ orderStateByOrderHashCache' = s.orderStateByOrderHashCache
    /\ callbackIfExists' = s.callbackIfExists
    /\ cleanupJobIntervalIdIfExists' = s.cleanupJobIntervalIdIfExists
    /\ eventWatcherSubscribed' = s.eventWatcherSubscribed
    /\ expirationWatcherSubscribed' = s.expirationWatcherSubscribed
    /\ cleanupTimerActive' = s.cleanupTimerActive
    /\ expiration' = s.expiration
    /\ balanceStore' = s.balanceStore
    /\ proxyAllowanceStore' = s.proxyAllowanceStore
    /\ filledTakerAmountStore' = s.filledTakerAmountStore
    /\ cancelledTakerAmountStore' = s.cancelledTakerAmountStore
    /\ thrown' = s.thrown
    /\ called' = s.called

\* A step of a handler or of the environment
Step(s) == Becomes(s) /\ rejected' = FALSE

\* A public call.  One that throws and leaves every field as it was is
\* followed by what follows the state it was made in: the run is not
\* continued from it a second time.
Call(s) ==
    /\ Becomes(s)
    /\ rejected' = (s.thrown # "none" /\ [s EXCEPT !.thrown = "none"] = Cur)

Throw(s, error) == [s EXCEPT !.thrown = error]

----------------------------------------------------------------------------
\* ExpirationWatcher: the queue of (orderHash, expirationMs)

ExpirationWatcher_addOrder(queue, orderHash, expirationUnixTimestampMs) ==
    MapSet(queue, orderHash, expirationUnixTimestampMs)

ExpirationWatcher_removeOrder(queue, orderHash) == MapDel(queue, orderHash)

\* The next order to expire: the earliest, ties broken by hash.
HashRank(h) == CASE h = "h1" -> 1 [] h = "h2" -> 2 [] OTHER -> 3

Earlier(queue, a, b) ==
    \/ queue[a] < queue[b]
    \/ queue[a] = queue[b] /\ HashRank(a) <= HashRank(b)

QueueMin(queue) ==
    CHOOSE h \in DOMAIN queue : \A g \in DOMAIN queue : Earlier(queue, h, g)

\* Variant: an order is due only once its expiration lies in the past.
IsExpired_StrictlyAfter(expirationMs, nowMs) ==
    expirationMs - ExpirationMarginMs < nowMs

IsExpired(expirationMs, nowMs) == expirationMs - ExpirationMarginMs <= nowMs

----------------------------------------------------------------------------
\* The dependency index

\* Variant: the order is indexed under its maker token only.
addToDependentOrderHashes_MakerTokenOnly(D, signedOrder, orderHash) ==
    LET maker == signedOrder.maker
        makerToken == signedOrder.makerTokenAddress
        d1 == IF maker \notin DOMAIN D THEN MapSet(D, maker, EmptyMap) ELSE D
        d2 == IF makerToken \notin DOMAIN d1[maker]
              THEN [d1 EXCEPT ![maker] = MapSet(@, makerToken, EmptySet)]
              ELSE d1
    IN  [d2 EXCEPT ![maker][makerToken] = SetAdd(@, orderHash)]

\* Variant: the index keeps a list, not a set.
addToDependentOrderHashes_Appends(D, signedOrder, orderHash) ==
    LET maker == signedOrder.maker
        makerToken == signedOrder.makerTokenAddress
        d1 == IF maker \notin DOMAIN D THEN MapSet(D, maker, EmptyMap) ELSE D
        d2 == IF makerToken \notin DOMAIN d1[maker]
              THEN [d1 EXCEPT ![maker] = MapSet(@, makerToken, EmptySet)]
              ELSE d1
        d3 == [d2 EXCEPT ![maker][makerToken] = Append(@, orderHash)]
        zrxTokenAddress == getZRXTokenAddress
        d4 == IF zrxTokenAddress \notin DOMAIN d3[maker]
              THEN [d3 EXCEPT ![maker] = MapSet(@, zrxTokenAddress, EmptySet)]
              ELSE d3
    IN  IF zrxTokenAddress = makerToken THEN d4
        ELSE [d4 EXCEPT ![maker][zrxTokenAddress] = Append(@, orderHash)]

addToDependentOrderHashes(D, signedOrder, orderHash) ==
    LET maker == signedOrder.maker
        makerToken == signedOrder.makerTokenAddress
        d1 == IF maker \notin DOMAIN D THEN MapSet(D, maker, EmptyMap) ELSE D
        d2 == IF makerToken \notin DOMAIN d1[maker]
              THEN [d1 EXCEPT ![maker] = MapSet(@, makerToken, EmptySet)]
              ELSE d1
        d3 == [d2 EXCEPT ![maker][makerToken] = SetAdd(@, orderHash)]
        zrxTokenAddress == getZRXTokenAddress
        d4 == IF zrxTokenAddress \notin DOMAIN d3[maker]
              THEN [d3 EXCEPT ![maker] = MapSet(@, zrxTokenAddress, EmptySet)]
              ELSE d3
    IN  [d4 EXCEPT ![maker][zrxTokenAddress] = SetAdd(@, orderHash)]

\* Variant: a set or an inner map that empties stays in the index.
removeFromDependentOrderHashes_NoPrune(D, makerAddress, tokenAddress, orderHash) ==
    IF makerAddress \notin DOMAIN D \/ tokenAddress \notin DOMAIN D[makerAddress]
    THEN [ok |-> FALSE, D |-> D]
    ELSE [ok |-> TRUE,
          D |-> [D EXCEPT ![makerAddress][tokenAddress] = SetDelete(@, orderHash)]]

\* D[maker][token].delete(orderHash) is a TypeError when D[maker] or
\* D[maker][token] is undefined: ok tells whether the call returned.
removeFromDependentOrderHashes(D, makerAddress, tokenAddress, orderHash) ==
    IF makerAddress \notin DOMAIN D \/ tokenAddress \notin DOMAIN D[makerAddress]
    THEN [ok |-> FALSE, D |-> D]
    ELSE LET d1 == [D EXCEPT ![makerAddress][tokenAddress] = SetDelete(@, orderHash)]
             d2 == IF Len(d1[makerAddress][tokenAddress]) = 0
                   THEN [d1 EXCEPT ![makerAddress] = MapDel(@, tokenAddress)]
                   ELSE d1
             d3 == IF DOMAIN d2[makerAddress] = {}
                   THEN MapDel(d2, makerAddress)
                   ELSE d2
         IN  [ok |-> TRUE, D |-> d3]

----------------------------------------------------------------------------
\* The public operations, as functions of the watcher's fields

\* Variant: the expiration is enrolled in seconds.
addOrder_Seconds(s, signedOrder) ==
    IF ~signedOrder.schemaOk THEN Throw(s, "SchemaValidationError")
    ELSE IF ~signedOrder.signatureOk THEN Throw(s, "InvalidSignature")
    ELSE LET orderHash == getOrderHashHex(signedOrder)
         IN  [s EXCEPT
                 !.orderByOrderHash = MapSet(@, orderHash, signedOrder),
                 !.dependentOrderHashes =
                     addToDependentOrderHashes(@, signedOrder, orderHash),
                 !.expiration =
                     ExpirationWatcher_addOrder(@, orderHash,
                         signedOrder.expirationUnixTimestampSec)]

\* Variant: the signature is verified after the order has been stored.
addOrder_VerifiesLate(s, signedOrder) ==
    IF ~signedOrder.schemaOk THEN Throw(s, "SchemaValidationError")
    ELSE LET orderHash == getOrderHashHex(signedOrder)
             expirationUnixTimestampMs ==
                 signedOrder.expirationUnixTimestampSec * milisecondsInASecond
             s1 == [s EXCEPT
                       !.orderByOrderHash = MapSet(@, orderHash, signedOrder),
                       !.dependentOrderHashes =
                           addToDependentOrderHashes(@, signedOrder, orderHash),
                       !.expiration =
                           ExpirationWatcher_addOrder(@, orderHash,
                                                      expirationUnixTimestampMs)]
         IN  IF ~signedOrder.signatureOk THEN Throw(s1, "InvalidSignature")
             ELSE s1

addOrder(s, signedOrder) ==
    IF ~signedOrder.schemaOk THEN Throw(s, "SchemaValidationError")
    ELSE IF ~signedOrder.signatureOk THEN Throw(s, "InvalidSignature")
    ELSE LET orderHash == getOrderHashHex(signedOrder)
             expirationUnixTimestampMs ==
                 signedOrder.expirationUnixTimestampSec * milisecondsInASecond
         IN  [s EXCEPT
                 !.orderByOrderHash = MapSet(@, orderHash, signedOrder),
                 !.dependentOrderHashes =
                     addToDependentOrderHashes(@, signedOrder, orderHash),
                 !.expiration =
                     ExpirationWatcher_addOrder(@, orderHash, expirationUnixTimestampMs)]

\* Variant: no early return for a hash that is not watched; the memo entry
\* is deleted and reading the maker of the missing order throws.
removeOrder_NoEarlyReturn(s, orderHash) ==
    IF orderHash \notin Hashes THEN Throw(s, "SchemaValidationError")
    ELSE IF orderHash \notin DOMAIN s.orderByOrderHash
         THEN Throw([s EXCEPT !.orderStateByOrderHashCache = MapDel(@, orderHash)],
                    "TypeError")
    ELSE LET signedOrder == s.orderByOrderHash[orderHash]
             s1 == [s EXCEPT
                       !.orderByOrderHash = MapDel(@, orderHash),
                       !.orderStateByOrderHashCache = MapDel(@, orderHash)]
             zrxTokenAddress == getZRXTokenAddress
             r1 == removeFromDependentOrderHashes(
                       s1.dependentOrderHashes, signedOrder.maker,
                       zrxTokenAddress, orderHash)
             r2 == IF zrxTokenAddress # signedOrder.makerTokenAddress
                   THEN removeFromDependentOrderHashes(
                            r1.D, signedOrder.maker,
                            signedOrder.makerTokenAddress, orderHash)
                   ELSE r1
         IN  IF ~r1.ok THEN Throw(s1, "TypeError")
             ELSE IF ~r2.ok
                  THEN Throw([s1 EXCEPT !.dependentOrderHashes = r1.D], "TypeError")
             ELSE [s1 EXCEPT
                      !.dependentOrderHashes = r2.D,
                      !.expiration = ExpirationWatcher_removeOrder(@, orderHash)]

\* Variant: the order leaves the index under ZRX only.
removeOrder_UnderZRXOnly(s, orderHash) ==
    IF orderHash \notin Hashes THEN Throw(s, "SchemaValidationError")
    ELSE IF orderHash \notin DOMAIN s.orderByOrderHash THEN s
    ELSE LET signedOrder == s.orderByOrderHash[orderHash]
             s1 == [s EXCEPT
                       !.orderByOrderHash = MapDel(@, orderHash),
                       !.orderStateByOrderHashCache = MapDel(@, orderHash)]
             r1 == removeFromDependentOrderHashes(
                       s1.dependentOrderHashes, signedOrder.maker,
                       getZRXTokenAddress, orderHash)
         IN  IF ~r1.ok THEN Throw(s1, "TypeError")
             ELSE [s1 EXCEPT
                      !.dependentOrderHashes = r1.D,
                      !.expiration = ExpirationWatcher_removeOrder(@, orderHash)]

removeOrder(s, orderHash) ==
    IF orderHash \notin Hashes THEN Throw(s, "SchemaValidationError")
    ELSE IF orderHash \notin DOMAIN s.orderByOrderHash THEN s   \* noop
    ELSE LET signedOrder == s.orderByOrderHash[orderHash]
             s1 == [s EXCEPT
                       !.orderByOrderHash = MapDel(@, orderHash),
                       !.orderStateByOrderHashCache = MapDel(@, orderHash)]
             zrxTokenAddress == getZRXTokenAddress
             r1 == removeFromDependentOrderHashes(
                       s1.dependentOrderHashes, signedOrder.maker,
                       zrxTokenAddress, orderHash)
             r2 == IF zrxTokenAddress # signedOrder.makerTokenAddress
                   THEN removeFromDependentOrderHashes(
                            r1.D, signedOrder.maker,
                            signedOrder.makerTokenAddress, orderHash)
                   ELSE r1
         IN  IF ~r1.ok THEN Throw(s1, "TypeError")
             ELSE IF ~r2.ok
                  THEN Throw([s1 EXCEPT !.dependentOrderHashes = r1.D], "TypeError")
             ELSE [s1 EXCEPT
                      !.dependentOrderHashes = r2.D,
                      !.expiration = ExpirationWatcher_removeOrder(@, orderHash)]

\* Variant: a second subscriber replaces the first.
subscribe_Replaces(s, callback) ==
    [s EXCEPT
        !.callbackIfExists = callback,
        !.eventWatcherSubscribed = TRUE,
        !.expirationWatcherSubscribed = TRUE,
        !.cleanupJobIntervalIdIfExists = "timer",
        !.cleanupTimerActive = TRUE]

subscribe(s, callback) ==
    IF s.callbackIfExists # Undefined
    THEN Throw(s, "SubscriptionAlreadyPresent")
    ELSE [s EXCEPT
             !.callbackIfExists = callback,
             !.eventWatcherSubscribed = TRUE,
             !.expirationWatcherSubscribed = TRUE,
             !.cleanupJobIntervalIdIfExists = "timer",
             !.cleanupTimerActive = TRUE]

\* Variant: unsubscribe without a subscription goes through.
unsubscribe_Unguarded(s) ==
    [s EXCEPT
        !.balanceStore = EmptyMap,
        !.proxyAllowanceStore = EmptyMap,
        !.filledTakerAmountStore = EmptyMap,
        !.cancelledTakerAmountStore = EmptyMap,
        !.callbackIfExists = Undefined,
        !.eventWatcherSubscribed = FALSE,
        !.expirationWatcherSubscribed = FALSE,
        !.cleanupTimerActive = FALSE]

\* Variant: the filled and cancelled amounts stay memoized.
unsubscribe_KeepsFilledCancelled(s) ==
    IF s.callbackIfExists = Undefined \/ s.cleanupJobIntervalIdIfExists = Undefined
    THEN Throw(s, "SubscriptionNotFound")
    ELSE [s EXCEPT
             !.balanceStore = EmptyMap,
             !.proxyAllowanceStore = EmptyMap,
             !.callbackIfExists = Undefined,
             !.eventWatcherSubscribed = FALSE,
             !.expirationWatcherSubscribed = FALSE,
             !.cleanupTimerActive = FALSE]

\* Variant: the emitted states are forgotten with the subscription.
unsubscribe_ForgetsMemo(s) ==
    IF s.callbackIfExists = Undefined \/ s.cleanupJobIntervalIdIfExists = Undefined
    THEN Throw(s, "SubscriptionNotFound")
    ELSE [s EXCEPT
             !.orderStateByOrderHashCache = EmptyMap,
             !.balanceStore = EmptyMap,
             !.proxyAllowanceStore = EmptyMap,
             !.filledTakerAmountStore = EmptyMap,
             !.cancelledTakerAmountStore = EmptyMap,
             !.callbackIfExists = Undefined,
             !.eventWatcherSubscribed = FALSE,
             !.expirationWatcherSubscribed = FALSE,
             !.cleanupTimerActive = FALSE]

\* Variant: the watched orders and their index go with the subscription.
unsubscribe_ForgetsOrders(s) ==
    IF s.callbackIfExists = Undefined \/ s.cleanupJobIntervalIdIfExists = Undefined
    THEN Throw(s, "SubscriptionNotFound")
    ELSE [s EXCEPT
             !.orderByOrderHash = EmptyMap,
             !.dependentOrderHashes = EmptyMap,
             !.balanceStore = EmptyMap,
             !.proxyAllowanceStore = EmptyMap,
             !.filledTakerAmountStore = EmptyMap,
             !.cancelledTakerAmountStore = EmptyMap,
             !.callbackIfExists = Undefined,
             !.eventWatcherSubscribed = FALSE,
             !.expirationWatcherSubscribed = FALSE,
             !.cleanupTimerActive = FALSE]

unsubscribe(s) ==
    IF s.callbackIfExists = Undefined \/ s.cleanupJobIntervalIdIfExists = Undefined
    THEN Throw(s, "SubscriptionNotFound")
    ELSE [s EXCEPT
             !.balanceStore = EmptyMap,
             !.proxyAllowanceStore = EmptyMap,
             !.filledTakerAmountStore = EmptyMap,
             !.cancelledTakerAmountStore = EmptyMap,
             !.callbackIfExists = Undefined,
             !.eventWatcherSubscribed = FALSE,
             !.expirationWatcherSubscribed = FALSE,
             !.cleanupTimerActive = FALSE]

----------------------------------------------------------------------------
\* The subscriber: what its callback may do with the watcher while it runs

Nothing == [do |-> "nothing", h |-> "null"]

Reactions ==
    {Nothing, [do |-> "unsubscribe", h |-> "null"]}
        \cup {[do |-> "removeOrder", h |-> h] : h \in Hashes}

React(s, reaction) ==
    CASE reaction.do = "unsubscribe" ->
             IF s.callbackIfExists = Undefined THEN s ELSE unsubscribe(s)
      [] reaction.do = "removeOrder" -> removeOrder(s, reaction.h)
      [] OTHER -> s

\* What the subscriber finds when its callback starts to run: no callback
\* reference, both listeners detached and the interval cleared.
TornDown(s) ==
    /\ s.callbackIfExists = Undefined
    /\ ~s.eventWatcherSubscribed
    /\ ~s.expirationWatcherSubscribed
    /\ ~s.cleanupTimerActive

\* callback(err, orderState), and what the subscriber does inside it
Invoke(s, callback, err, orderState, reaction) ==
    React([s EXCEPT !.called = [cb |-> callback, err |-> err, state |-> orderState,
                                tornDown |-> TornDown(s)]],
          reaction)

----------------------------------------------------------------------------
\* The expiration path

\* Variant: the expired order is reported but stays watched.
onOrderExpired_KeepsOrder(s, orderHash, reaction) ==
    LET orderState == [isValid |-> FALSE, orderHash |-> orderHash,
                       error |-> "OrderFillExpired",
                       relevantState |-> NoRelevantState]
    IN  IF orderHash \in DOMAIN s.orderByOrderHash /\ s.callbackIfExists # Undefined
        THEN Invoke(s, s.callbackIfExists, "null", orderState, reaction)
        ELSE s

onOrderExpired(s, orderHash, reaction) ==
    LET orderState == [isValid |-> FALSE, orderHash |-> orderHash,
                       error |-> "OrderFillExpired",
                       relevantState |-> NoRelevantState]
    IN  IF orderHash \in DOMAIN s.orderByOrderHash
        THEN LET s1 == removeOrder(s, orderHash)
             IN  IF s1.thrown # "none" THEN s1
                 ELSE IF s1.callbackIfExists # Undefined
                      THEN Invoke(s1, s1.callbackIfExists, "null", orderState, reaction)
                      ELSE s1
        ELSE s

----------------------------------------------------------------------------
\* The chain client and the lazy stores in front of it

InitialChain ==
    [balance |-> [k \in Tokens \X Addresses |-> 1],
     allowance |-> [k \in Tokens \X Addresses |-> 1],
     filled |-> [h \in Hashes |-> 0],
     cancelled |-> [h \in Hashes |-> 0]]

\* The entries of the chain that change while the watcher runs
SpendableBalances == {<<ZRX, "A">>}

RevocableAllowances == {<<"T", "A">>}

FillableOrders == {"h3"}

CancellableOrders == {"h1"}

\* Variant: every read goes to the chain.
ReadThrough_AlwaysChain(store, key, onChain) == onChain[key]

\* A read through a store: the memoized amount, or the chain's on a miss
ReadThrough(store, key, onChain) ==
    IF key \in DOMAIN store THEN store[key] ELSE onChain[key]

Memoize(store, key, onChain) ==
    IF key \in DOMAIN store THEN store ELSE MapSet(store, key, onChain[key])

\* Variant: the owner's allowance on the token is forgotten with the balance.
deleteBalance_AlsoAllowance(s, tokenAddress, userAddress) ==
    [s EXCEPT !.balanceStore = MapDel(@, <<tokenAddress, userAddress>>),
              !.proxyAllowanceStore = MapDel(@, <<tokenAddress, userAddress>>)]

deleteBalance(s, tokenAddress, userAddress) ==
    [s EXCEPT !.balanceStore = MapDel(@, <<tokenAddress, userAddress>>)]

\* Variant: the allowances of every owner on the token are forgotten.
deleteProxyAllowance_WholeToken(s, tokenAddress, userAddress) ==
    [s EXCEPT !.proxyAllowanceStore =
        [k \in {x \in DOMAIN @ : x[1] # tokenAddress} |-> @[k]] @@ EmptyMap]

deleteProxyAllowance(s, tokenAddress, userAddress) ==
    [s EXCEPT !.proxyAllowanceStore = MapDel(@, <<tokenAddress, userAddress>>)]

\* Variant: the cancelled amount of the order is forgotten with the filled one.
deleteFilledTakerAmount_AlsoCancelled(s, orderHash) ==
    [s EXCEPT !.filledTakerAmountStore = MapDel(@, orderHash),
              !.cancelledTakerAmountStore = MapDel(@, orderHash)]

deleteFilledTakerAmount(s, orderHash) ==
    [s EXCEPT !.filledTakerAmountStore = MapDel(@, orderHash)]

deleteCancelledTakerAmount(s, orderHash) ==
    [s EXCEPT !.cancelledTakerAmountStore = MapDel(@, orderHash)]

----------------------------------------------------------------------------
\* The order-state evaluator: it reads the maker's balance and allowance of
\* the maker token and of ZRX and the order's filled and cancelled amounts,
\* all through the stores.

EvaluatorReads(signedOrder, orderHash) ==
    [balance |-> {<<signedOrder.makerTokenAddress, signedOrder.maker>>,
                  <<getZRXTokenAddress, signedOrder.maker>>},
     allowance |-> {<<signedOrder.makerTokenAddress, signedOrder.maker>>,
                    <<getZRXTokenAddress, signedOrder.maker>>}]

\* Whether the evaluation has to go to the chain for some amount
MissesCache(s, signedOrder, orderHash) ==
    \/ EvaluatorReads(signedOrder, orderHash).balance \ DOMAIN s.balanceStore # {}
    \/ EvaluatorReads(signedOrder, orderHash).allowance \ DOMAIN s.proxyAllowanceStore # {}
    \/ orderHash \notin DOMAIN s.filledTakerAmountStore
    \/ orderHash \notin DOMAIN s.cancelledTakerAmountStore

\* The stores after the evaluation's reads
AfterReads(s, signedOrder, orderHash, ch) ==
    LET makerKey == <<signedOrder.makerTokenAddress, signedOrder.maker>>
        feeKey == <<getZRXTokenAddress, signedOrder.maker>>
    IN  [s EXCEPT
            !.balanceStore =
                Memoize(Memoize(@, makerKey, ch.balance), feeKey, ch.balance),
            !.proxyAllowanceStore =
                Memoize(Memoize(@, makerKey, ch.allowance), feeKey, ch.allowance),
            !.filledTakerAmountStore = Memoize(@, orderHash, ch.filled),
            !.cancelledTakerAmountStore = Memoize(@, orderHash, ch.cancelled)]

Invalid(orderHash, error) ==
    [isValid |-> FALSE, orderHash |-> orderHash, error |-> error,
     relevantState |-> NoRelevantState]

getOrderState(s, signedOrder, orderHash, ch) ==
    LET makerKey == <<signedOrder.makerTokenAddress, signedOrder.maker>>
        feeKey == <<getZRXTokenAddress, signedOrder.maker>>
        makerBalance == ReadThrough(s.balanceStore, makerKey, ch.balance)
        makerProxyAllowance == ReadThrough(s.proxyAllowanceStore, makerKey, ch.allowance)
        makerFeeBalance == ReadThrough(s.balanceStore, feeKey, ch.balance)
        makerFeeProxyAllowance == ReadThrough(s.proxyAllowanceStore, feeKey, ch.allowance)
        filled == ReadThrough(s.filledTakerAmountStore, orderHash, ch.filled)
        cancelled == ReadThrough(s.cancelledTakerAmountStore, orderHash, ch.cancelled)
    IN  IF cancelled > 0 THEN Invalid(orderHash, "OrderCancelled")
        ELSE IF filled > 0 THEN Invalid(orderHash, "OrderRemainingFillAmountZero")
        ELSE IF makerProxyAllowance = 0
             THEN Invalid(orderHash, "InsufficientMakerAllowance")
        ELSE IF makerBalance = 0 THEN Invalid(orderHash, "InsufficientMakerBalance")
        ELSE IF signedOrder.makerFee > 0 /\ makerFeeProxyAllowance = 0
             THEN Invalid(orderHash, "InsufficientMakerFeeAllowance")
        ELSE IF signedOrder.makerFee > 0 /\ makerFeeBalance = 0
             THEN Invalid(orderHash, "InsufficientMakerFeeBalance")
        ELSE [isValid |-> TRUE, orderHash |-> orderHash, error |-> "null",
              relevantState |->
                  <<makerBalance, makerProxyAllowance, makerFeeBalance,
                    makerFeeProxyAllowance, filled, cancelled>>]

----------------------------------------------------------------------------
\* _emitRevalidateOrdersAsync.  The loop is suspended inside the evaluator
\* call of one hash at a time; a task records where.

Idle == [status |-> "idle"]

Evaluating(orderHash, signedOrder, rest) ==
    [status |-> "evaluating", orderHash |-> orderHash,
     signedOrder |-> signedOrder, rest |-> rest]

\* The loop from the top of an iteration, up to its first suspension.  The
\* evaluator is handed W[orderHash]; handed undefined it rejects.
emitFrom(s, orderHashes) ==
    IF Len(orderHashes) = 0 THEN [s |-> s, task |-> Idle]
    ELSE IF Head(orderHashes) \notin DOMAIN s.orderByOrderHash
         THEN [s |-> Throw(s, "TypeError"), task |-> Idle]
    ELSE [s |-> s,
          task |-> Evaluating(Head(orderHashes),
                              s.orderByOrderHash[Head(orderHashes)],
                              Tail(orderHashes))]

\* Variant: every evaluated state is emitted.
emitResume_AlwaysEmits(s, task, ch, readFails, reaction) ==
    IF readFails THEN [s |-> Throw(s, "ChainError"), task |-> Idle]
    ELSE LET orderHash == task.orderHash
             orderState == getOrderState(s, task.signedOrder, orderHash, ch)
             s1 == AfterReads(s, task.signedOrder, orderHash, ch)
         IN  IF s1.callbackIfExists = Undefined
             THEN [s |-> s1, task |-> Idle]
             ELSE emitFrom(
                      Invoke([s1 EXCEPT !.orderStateByOrderHashCache =
                                 MapSet(@, orderHash, orderState)],
                             s1.callbackIfExists, "null", orderState, reaction),
                      task.rest)

\* Variant: the loop does not look at the callback reference after the
\* evaluator call and delivers to the subscriber it last knew.
emitResume_IgnoresUnsubscribe(s, task, ch, readFails, reaction) ==
    IF readFails THEN [s |-> Throw(s, "ChainError"), task |-> Idle]
    ELSE LET orderHash == task.orderHash
             orderState == getOrderState(s, task.signedOrder, orderHash, ch)
             s1 == AfterReads(s, task.signedOrder, orderHash, ch)
             callback == IF s1.callbackIfExists = Undefined THEN "cb1"
                         ELSE s1.callbackIfExists
         IN  IF /\ orderHash \in DOMAIN s1.orderStateByOrderHashCache
                /\ s1.orderStateByOrderHashCache[orderHash] = orderState
             THEN emitFrom(s1, task.rest)
             ELSE emitFrom(
                      Invoke([s1 EXCEPT !.orderStateByOrderHashCache =
                                 MapSet(@, orderHash, orderState)],
                             callback, "null", orderState, reaction),
                      task.rest)

\* Variant: a changed state is delivered and the memo is left as it was.
emitResume_LeavesMemo(s, task, ch, readFails, reaction) ==
    IF readFails THEN [s |-> Throw(s, "ChainError"), task |-> Idle]
    ELSE LET orderHash == task.orderHash
             orderState == getOrderState(s, task.signedOrder, orderHash, ch)
             s1 == AfterReads(s, task.signedOrder, orderHash, ch)
         IN  IF s1.callbackIfExists = Undefined
             THEN [s |-> s1, task |-> Idle]
             ELSE IF /\ orderHash \in DOMAIN s1.orderStateByOrderHashCache
                     /\ s1.orderStateByOrderHashCache[orderHash] = orderState
                  THEN emitFrom(s1, task.rest)
                  ELSE emitFrom(
                           Invoke(s1, s1.callbackIfExists, "null", orderState,
                                  reaction),
                           task.rest)

\* The loop from the return of the evaluator call to its next suspension
emitResume(s, task, ch, readFails, reaction) ==
    IF readFails THEN [s |-> Throw(s, "ChainError"), task |-> Idle]
    ELSE LET orderHash == task.orderHash
             orderState == getOrderState(s, task.signedOrder, orderHash, ch)
             s1 == AfterReads(s, task.signedOrder, orderHash, ch)
         IN  IF s1.callbackIfExists = Undefined
             THEN [s |-> s1, task |-> Idle]   \* Unsubscribe was called
             ELSE IF /\ orderHash \in DOMAIN s1.orderStateByOrderHashCache
                     /\ s1.orderStateByOrderHashCache[orderHash] = orderState
                  THEN emitFrom(s1, task.rest)
                  ELSE emitFrom(
                           Invoke([s1 EXCEPT !.orderStateByOrderHashCache =
                                      MapSet(@, orderHash, orderState)],
                                  s1.callbackIfExists, "null", orderState, reaction),
                           task.rest)

----------------------------------------------------------------------------
\* The event handler

NoLog == [event |-> "null", address |-> "null", owner |-> "null",
          from |-> "null", to |-> "null", orderHash |-> "null"]

EventAddresses == Addresses

Logs ==
    {[NoLog EXCEPT !.event = e, !.address = a, !.owner = o] :
        e \in {"Approval", "Deposit", "Withdrawal"}, a \in Tokens, o \in EventAddresses}
    \cup {[NoLog EXCEPT !.event = "Transfer", !.address = a, !.from = f, !.to = g] :
        a \in Tokens, f \in EventAddresses, g \in EventAddresses}
    \cup {[NoLog EXCEPT !.event = e, !.orderHash = h] :
        e \in {"LogFill", "LogCancel"}, h \in Hashes}
    \cup {[NoLog EXCEPT !.event = e] : e \in {"LogError", "UnknownEvent", "undecoded"}}

\* The orders that depend on (makerAddress, makerToken), in the order the
\* index holds them
dependentOn(s, makerAddress, makerToken) ==
    IF /\ makerAddress \in DOMAIN s.dependentOrderHashes
       /\ makerToken \in DOMAIN s.dependentOrderHashes[makerAddress]
    THEN s.dependentOrderHashes[makerAddress][makerToken]
    ELSE <<>>

\* Variant: the error is reported and the subscription is left standing.
onEventWatcherError_OnlyReports(s, err, reaction) ==
    IF s.callbackIfExists # Undefined
    THEN Invoke(s, s.callbackIfExists, err, NullState, reaction)
    ELSE s

\* The handler's branch for an error of the event source: the callback
\* first, unsubscribe() second.
onEventWatcherError(s, err, reaction) ==
    IF s.callbackIfExists # Undefined
    THEN unsubscribe(Invoke(s, s.callbackIfExists, err, NullState, reaction))
    ELSE s

\* Variant: a Transfer also re-evaluates the orders of the receiver.
onEventWatcherCallback_TransferFansOutToReceiver(s, err, log, reaction) ==
    IF err # "null"
    THEN [s |-> onEventWatcherError(s, err, reaction), task |-> Idle]
    ELSE CASE log.event = "undecoded" -> [s |-> s, task |-> Idle]
           [] log.event = "Approval" ->
                emitFrom(deleteProxyAllowance(s, log.address, log.owner),
                         dependentOn(s, log.owner, log.address))
           [] log.event = "Transfer" ->
                emitFrom(deleteBalance(deleteBalance(s, log.address, log.from),
                                       log.address, log.to),
                         dependentOn(s, log.from, log.address)
                             \o dependentOn(s, log.to, log.address))
           [] log.event = "Deposit" ->
                emitFrom(deleteBalance(s, log.address, log.owner),
                         dependentOn(s, log.owner, log.address))
           [] log.event = "Withdrawal" ->
                emitFrom(deleteBalance(s, log.address, log.owner),
                         dependentOn(s, log.owner, log.address))
           [] log.event = "LogFill" ->
                emitFrom(deleteFilledTakerAmount(s, log.orderHash),
                         IF log.orderHash \in DOMAIN s.orderByOrderHash
                         THEN <<log.orderHash>> ELSE <<>>)
           [] log.event = "LogCancel" ->
                emitFrom(deleteCancelledTakerAmount(s, log.orderHash),
                         IF log.orderHash \in DOMAIN s.orderByOrderHash
                         THEN <<log.orderHash>> ELSE <<>>)
           [] log.event = "LogError" -> [s |-> s, task |-> Idle]
           [] OTHER -> [s |-> Throw(s, "SwitchError"), task |-> Idle]

\* Variant: the switch has no case for LogError.
onEventWatcherCallback_LogErrorUnhandled(s, err, log, reaction) ==
    IF err # "null"
    THEN [s |-> onEventWatcherError(s, err, reaction), task |-> Idle]
    ELSE CASE log.event = "undecoded" -> [s |-> s, task |-> Idle]
           [] log.event = "Approval" ->
                emitFrom(deleteProxyAllowance(s, log.address, log.owner),
                         dependentOn(s, log.owner, log.address))
           [] log.event = "Transfer" ->
                emitFrom(deleteBalance(deleteBalance(s, log.address, log.from),
                                       log.address, log.to),
                         dependentOn(s, log.from, log.address))
           [] log.event = "Deposit" ->
                emitFrom(deleteBalance(s, log.address, log.owner),
                         dependentOn(s, log.owner, log.address))
           [] log.event = "Withdrawal" ->
                emitFrom(deleteBalance(s, log.address, log.owner),
                         dependentOn(s, log.owner, log.address))
           [] log.event = "LogFill" ->
                emitFrom(deleteFilledTakerAmount(s, log.orderHash),
                         IF log.orderHash \in DOMAIN s.orderByOrderHash
                         THEN <<log.orderHash>> ELSE <<>>)
           [] log.event = "LogCancel" ->
                emitFrom(deleteCancelledTakerAmount(s, log.orderHash),
                         IF log.orderHash \in DOMAIN s.orderByOrderHash
                         THEN <<log.orderHash>> ELSE <<>>)
           [] OTHER -> [s |-> Throw(s, "SwitchError"), task |-> Idle]

\* Variant: a decoded log of an unknown kind empties the balance store and is
\* otherwise passed over.
onEventWatcherCallback_UnknownDropsBalances(s, err, log, reaction) ==
    IF err # "null"
    THEN [s |-> onEventWatcherError(s, err, reaction), task |-> Idle]
    ELSE CASE log.event = "undecoded" -> [s |-> s, task |-> Idle]
           [] log.event = "Approval" ->
                emitFrom(deleteProxyAllowance(s, log.address, log.owner),
                         dependentOn(s, log.owner, log.address))
           [] log.event = "Transfer" ->
                emitFrom(deleteBalance(deleteBalance(s, log.address, log.from),
                                       log.address, log.to),
                         dependentOn(s, log.from, log.address))
           [] log.event = "Deposit" ->
                emitFrom(deleteBalance(s, log.address, log.owner),
                         dependentOn(s, log.owner, log.address))
           [] log.event = "Withdrawal" ->
                emitFrom(deleteBalance(s, log.address, log.owner),
                         dependentOn(s, log.owner, log.address))
           [] log.event = "LogFill" ->
                emitFrom(deleteFilledTakerAmount(s, log.orderHash),
                         IF log.orderHash \in DOMAIN s.orderByOrderHash
                         THEN <<log.orderHash>> ELSE <<>>)
           [] log.event = "LogCancel" ->
                emitFrom(deleteCancelledTakerAmount(s, log.orderHash),
                         IF log.orderHash \in DOMAIN s.orderByOrderHash
                         THEN <<log.orderHash>> ELSE <<>>)
           [] log.event = "LogError" -> [s |-> s, task |-> Idle]
           [] OTHER -> [s |-> [s EXCEPT !.balanceStore = EmptyMap], task |-> Idle]

onEventWatcherCallback(s, err, log, reaction) ==
    IF err # "null"
    THEN [s |-> onEventWatcherError(s, err, reaction), task |-> Idle]
    ELSE CASE log.event = "undecoded" -> [s |-> s, task |-> Idle]
           [] log.event = "Approval" ->
                emitFrom(deleteProxyAllowance(s, log.address, log.owner),
                         dependentOn(s, log.owner, log.address))
           [] log.event = "Transfer" ->
                emitFrom(deleteBalance(deleteBalance(s, log.address, log.from),
                                       log.address, log.to),
                         dependentOn(s, log.from, log.address))
           [] log.event = "Deposit" ->
                emitFrom(deleteBalance(s, log.address, log.owner),
                         dependentOn(s, log.owner, log.address))
           [] log.event = "Withdrawal" ->
                emitFrom(deleteBalance(s, log.address, log.owner),
                         dependentOn(s, log.owner, log.address))
           [] log.event = "LogFill" ->
                emitFrom(deleteFilledTakerAmount(s, log.orderHash),
                         IF log.orderHash \in DOMAIN s.orderByOrderHash
                         THEN <<log.orderHash>> ELSE <<>>)
           [] log.event = "LogCancel" ->
                emitFrom(deleteCancelledTakerAmount(s, log.orderHash),
                         IF log.orderHash \in DOMAIN s.orderByOrderHash
                         THEN <<log.orderHash>> ELSE <<>>)
           [] log.event = "LogError" -> [s |-> s, task |-> Idle]
           [] OTHER -> [s |-> Throw(s, "SwitchError"), task |-> Idle]

\* The handler's suspended emission.  unchanged is a history field: whether
\* the log changed the OrderState the evaluator computes, for no watched order.
Dispatching(task, unchanged) ==
    IF task = Idle THEN Idle
    ELSE [status |-> "evaluating", orderHash |-> task.orderHash,
          signedOrder |-> task.signedOrder, rest |-> task.rest,
          unchanged |-> unchanged]

LogChangesNothing(s, after, ch) ==
    \A h \in DOMAIN s.orderByOrderHash :
        getOrderState(s, s.orderByOrderHash[h], h, ch)
            = getOrderState(after, s.orderByOrderHash[h], h, ch)

----------------------------------------------------------------------------
\* The cleanup job

\* Variant: only the maker's entries are dropped.
cleanupOrderRelatedState_MakerOnly(s, orderHash) ==
    LET s1 == deleteCancelledTakerAmount(deleteFilledTakerAmount(s, orderHash), orderHash)
    IN  IF orderHash \notin DOMAIN s.orderByOrderHash
        THEN Throw(s1, "TypeError")
        ELSE LET signedOrder == s.orderByOrderHash[orderHash]
                 s2 == deleteProxyAllowance(
                           deleteBalance(s1, signedOrder.makerTokenAddress, signedOrder.maker),
                           signedOrder.makerTokenAddress, signedOrder.maker)
             IN  IF signedOrder.makerFee # 0
                 THEN deleteProxyAllowance(
                          deleteBalance(s2, getZRXTokenAddress, signedOrder.maker),
                          getZRXTokenAddress, signedOrder.maker)
                 ELSE s2

cleanupOrderRelatedState(s, orderHash) ==
    LET s1 == deleteCancelledTakerAmount(deleteFilledTakerAmount(s, orderHash), orderHash)
    IN  IF orderHash \notin DOMAIN s.orderByOrderHash
        THEN Throw(s1, "TypeError")   \* signedOrder is undefined
        ELSE LET signedOrder == s.orderByOrderHash[orderHash]
                 s2 == deleteProxyAllowance(
                           deleteBalance(s1, signedOrder.makerTokenAddress, signedOrder.maker),
                           signedOrder.makerTokenAddress, signedOrder.maker)
                 s3 == deleteProxyAllowance(
                           deleteBalance(s2, signedOrder.takerTokenAddress, signedOrder.taker),
                           signedOrder.takerTokenAddress, signedOrder.taker)
                 zrxTokenAddress == getZRXTokenAddress
                 s4 == IF signedOrder.makerFee # 0
                       THEN deleteProxyAllowance(
                                deleteBalance(s3, zrxTokenAddress, signedOrder.maker),
                                zrxTokenAddress, signedOrder.maker)
                       ELSE s3
             IN  IF signedOrder.takerFee # 0
                 THEN deleteProxyAllowance(
                          deleteBalance(s4, zrxTokenAddress, signedOrder.taker),
                          zrxTokenAddress, signedOrder.taker)
                 ELSE s4

\* Variant: the error is reported and the subscription is left standing.
cleanupOnError_OnlyReports(s, callback, err, reaction) ==
    Invoke([s EXCEPT !.thrown = "none"], callback, err, NullState, reaction)

\* Variant: the error is lost on the way to the subscriber.
cleanupOnError_DropsError(s, callback, err, reaction) ==
    LET s1 == unsubscribe([s EXCEPT !.thrown = "none"])
    IN  IF s1.thrown # "none" THEN s1
        ELSE Invoke(s1, callback, "null", NullState, reaction)

\* The error callback subscribe() hands to the interval: it closes over the
\* callback of that subscription.
cleanupOnError(s, callback, err, reaction) ==
    LET s1 == unsubscribe([s EXCEPT !.thrown = "none"])
    IN  IF s1.thrown # "none" THEN s1
        ELSE Invoke(s1, callback, err, NullState, reaction)

Sweeping(task, keys, callback) ==
    [status |-> "evaluating", orderHash |-> task.orderHash,
     signedOrder |-> task.signedOrder, rest |-> task.rest,
     keys |-> keys, callback |-> callback]

\* Variant: the hash being swept stays among the keys still to sweep.
cleanupFrom_KeepsKey(s, orderHash, keys, callback, reaction) ==
    LET s1 == cleanupOrderRelatedState(s, orderHash)
        r == emitFrom(s1, <<orderHash>>)
    IN  IF s1.thrown # "none"
        THEN [s |-> cleanupOnError(s1, callback, s1.thrown, reaction), task |-> Idle]
        ELSE [s |-> r.s, task |-> Sweeping(r.task, keys \cup {orderHash}, callback)]

\* One iteration of _cleanupAsync's loop, up to its suspension: the key
\* snapshot's next hash is orderHash, keys are those after it.
cleanupFrom(s, orderHash, keys, callback, reaction) ==
    LET s1 == cleanupOrderRelatedState(s, orderHash)
        r == emitFrom(s1, <<orderHash>>)
    IN  IF s1.thrown # "none"
        THEN [s |-> cleanupOnError(s1, callback, s1.thrown, reaction), task |-> Idle]
        ELSE [s |-> r.s, task |-> Sweeping(r.task, keys, callback)]

----------------------------------------------------------------------------
\* Actions

Init ==
    /\ orderByOrderHash = EmptyMap
    /\ dependentOrderHashes = EmptyMap
    /\ orderStateByOrderHashCache = EmptyMap
    /\ callbackIfExists = Undefined
    /\ cleanupJobIntervalIdIfExists = Undefined
    /\ eventWatcherSubscribed = FALSE
    /\ expirationWatcherSubscribed = FALSE
    /\ cleanupTimerActive = FALSE
    /\ expiration = EmptyMap
    /\ balanceStore = EmptyMap
    /\ proxyAllowanceStore = EmptyMap
    /\ filledTakerAmountStore = EmptyMap
    /\ cancelledTakerAmountStore = EmptyMap
    /\ chain = InitialChain
    /\ dispatch = Idle
    /\ sweep = Idle
    /\ nowSec = 0
    /\ envLeft = MaxEnvSteps
    /\ universe \in Universes
    /\ rejected = FALSE
    /\ thrown = "none"
    /\ called = NoCall

\* A move of the environment: a log or an error delivered, a tick of the
\* cleanup interval or of the clock, a change on the chain.
EnvMove ==
    /\ envLeft > 0
    /\ envLeft' = envLeft - 1

\* Removing an order that is not watched is a no-op, so a subscriber that
\* removes an order removes a watched one.
MayReact(reaction) ==
    reaction.do = "removeOrder" => reaction.h \in DOMAIN orderByOrderHash

AddOrder(signedOrder) ==
    /\ getOrderHashHex(signedOrder) \in universe
    /\ Call(addOrder(Cur, signedOrder))
    /\ UNCHANGED <<chain, dispatch, sweep, nowSec, envLeft, universe>>

RemoveOrder(orderHash) ==
    /\ orderHash \in universe \cup {MalformedHash}
    /\ Call(removeOrder(Cur, orderHash))
    /\ UNCHANGED <<chain, dispatch, sweep, nowSec, envLeft, universe>>

\* Two callbacks are told apart only through a sweep in flight, which holds
\* the one it was started under: with no sweep in flight a callback that is
\* attached is called cb1.
Subscribe(callback) ==
    /\ callback # "cb1" => (sweep # Idle \/ callbackIfExists # Undefined)
    /\ Call(subscribe(Cur, callback))
    /\ UNCHANGED <<chain, dispatch, sweep, nowSec, envLeft, universe>>

Unsubscribe ==
    /\ Call(unsubscribe(Cur))
    /\ UNCHANGED <<chain, dispatch, sweep, nowSec, envLeft, universe>>

\* One turn of the expiration watcher's pruning loop: the earliest order, if
\* it is due, leaves the queue and is handed to _onOrderExpired.
ExpireNext(reaction) ==
    /\ MayReact(reaction)
    /\ expirationWatcherSubscribed
    /\ DOMAIN expiration # {}
    /\ LET orderHash == QueueMin(expiration)
       IN  /\ IsExpired(expiration[orderHash], nowSec * milisecondsInASecond)
           /\ LET s1 == onOrderExpired(
                          [Cur EXCEPT !.expiration =
                              ExpirationWatcher_removeOrder(@, orderHash)],
                          orderHash, reaction)
              IN  /\ reaction.do # "nothing" => s1.called # NoCall
                  /\ Step(s1)
    /\ UNCHANGED <<chain, dispatch, sweep, nowSec, envLeft, universe>>

Tick ==
    /\ nowSec' = nowSec + 1
    /\ EnvMove
    /\ Step(Cur)
    /\ UNCHANGED <<chain, dispatch, sweep, universe>>

\* Variant: the event watcher hands over a log whether or not the handler's
\* promise for the log before has settled.
Dispatch_WithoutWaiting(log) ==
    /\ eventWatcherSubscribed
    /\ EnvMove
    /\ LET r == onEventWatcherCallback(Cur, "null", log, Nothing)
       IN  /\ Step(r.s)
           /\ dispatch' = Dispatching(r.task, LogChangesNothing(Cur, r.s, chain))
    /\ UNCHANGED <<chain, sweep, nowSec, universe>>

\* The event watcher hands the handler a log; it hands over the next one
\* when the handler's promise has settled.
Dispatch(log) ==
    /\ eventWatcherSubscribed
    /\ dispatch = Idle
    /\ EnvMove
    /\ LET r == onEventWatcherCallback(Cur, "null", log, Nothing)
       IN  /\ Step(r.s)
           /\ dispatch' = Dispatching(r.task, LogChangesNothing(Cur, r.s, chain))
    /\ UNCHANGED <<chain, sweep, nowSec, universe>>

EventError(reaction) ==
    /\ MayReact(reaction)
    /\ eventWatcherSubscribed
    /\ dispatch = Idle
    /\ EnvMove
    /\ LET r == onEventWatcherCallback(Cur, "EventSourceError", NoLog, reaction)
       IN  /\ reaction.do # "nothing" => r.s.called # NoCall
           /\ Step(r.s)
           /\ dispatch' = r.task
    /\ UNCHANGED <<chain, sweep, nowSec, universe>>

\* The evaluator call the event handler awaits settles.
DispatchResume(readFails, reaction) ==
    /\ dispatch # Idle
    /\ MayReact(reaction)
    /\ readFails => MissesCache(Cur, dispatch.signedOrder, dispatch.orderHash)
    /\ LET r == emitResume(Cur, dispatch, chain, readFails, reaction)
       IN  /\ reaction.do # "nothing" => r.s.called # NoCall
           /\ Step(r.s)
           /\ dispatch' = Dispatching(r.task, dispatch.unchanged)
    /\ UNCHANGED <<chain, sweep, nowSec, envLeft, universe>>

\* The cleanup interval fires; the tick is dropped while a sweep runs.
CleanupStart ==
    /\ cleanupTimerActive
    /\ sweep = Idle
    /\ EnvMove
    /\ IF DOMAIN orderByOrderHash = {}
       THEN Step(Cur) /\ sweep' = Idle
       ELSE \E orderHash \in DOMAIN orderByOrderHash :
                LET r == cleanupFrom(Cur, orderHash,
                                     DOMAIN orderByOrderHash \ {orderHash},
                                     callbackIfExists, Nothing)
                IN  /\ Step(r.s)
                    /\ sweep' = r.task
    /\ UNCHANGED <<chain, dispatch, nowSec, universe>>

\* The evaluator call the sweep awaits settles; the sweep goes on to the
\* next key of its snapshot.
CleanupResume(readFails, reaction) ==
    /\ sweep # Idle
    /\ MayReact(reaction)
    /\ readFails => MissesCache(Cur, sweep.signedOrder, sweep.orderHash)
    /\ LET r == emitResume(Cur, sweep, chain, readFails, reaction)
       IN  IF r.s.thrown # "none"
           THEN LET e == cleanupOnError(r.s, sweep.callback, r.s.thrown, reaction)
                IN  /\ reaction.do # "nothing" => e.called # NoCall
                    /\ Step(e)
                    /\ sweep' = Idle
           ELSE IF sweep.keys = {}
                THEN /\ reaction.do # "nothing" => r.s.called # NoCall
                     /\ Step(r.s)
                     /\ sweep' = Idle
                ELSE \E orderHash \in sweep.keys :
                         LET n == cleanupFrom(r.s, orderHash, sweep.keys \ {orderHash},
                                              sweep.callback, reaction)
                         IN  /\ reaction.do # "nothing" => n.s.called # NoCall
                             /\ Step(n.s)
                             /\ sweep' = n.task
    /\ UNCHANGED <<chain, dispatch, nowSec, envLeft, universe>>

\* The chain moves on under the watcher.
Spend(key) ==
    /\ chain.balance[key] = 1
    /\ chain' = [chain EXCEPT !.balance[key] = 0]
    /\ EnvMove
    /\ Step(Cur)
    /\ UNCHANGED <<dispatch, sweep, nowSec, universe>>

Revoke(key) ==
    /\ chain.allowance[key] = 1
    /\ chain' = [chain EXCEPT !.allowance[key] = 0]
    /\ EnvMove
    /\ Step(Cur)
    /\ UNCHANGED <<dispatch, sweep, nowSec, universe>>

Fill(orderHash) ==
    /\ chain.filled[orderHash] = 0
    /\ chain' = [chain EXCEPT !.filled[orderHash] = 1]
    /\ EnvMove
    /\ Step(Cur)
    /\ UNCHANGED <<dispatch, sweep, nowSec, universe>>

Cancel(orderHash) ==
    /\ chain.cancelled[orderHash] = 0
    /\ chain' = [chain EXCEPT !.cancelled[orderHash] = 1]
    /\ EnvMove
    /\ Step(Cur)
    /\ UNCHANGED <<dispatch, sweep, nowSec, universe>>

Next ==
    \/ \E signedOrder \in InputOrders : AddOrder(signedOrder)
    \/ \E orderHash \in Hashes \cup {MalformedHash} : RemoveOrder(orderHash)
    \/ \E callback \in Callbacks : Subscribe(callback)
    \/ Unsubscribe
    \/ \E reaction \in Reactions : ExpireNext(reaction)
    \/ Tick
    \/ \E log \in Logs : Dispatch(log)
    \/ \E reaction \in Reactions : EventError(reaction)
    \/ \E readFails \in BOOLEAN, reaction \in Reactions :
           DispatchResume(readFails, reaction)
    \/ CleanupStart
    \/ \E readFails \in BOOLEAN, reaction \in Reactions :
           CleanupResume(readFails, reaction)
    \/ \E key \in SpendableBalances : Spend(key)
    \/ \E key \in RevocableAllowances : Revoke(key)
    \/ \E orderHash \in FillableOrders : Fill(orderHash)
    \/ \E orderHash \in CancellableOrders : Cancel(orderHash)

Spec == Init /\ [][Next]_vars

\* A watcher with one order to watch, h1, and a longer run of the
\* environment: long enough for an amount to be cached, to change on the
\* chain and to be invalidated by the event that reports the change.
MaxSoloEnvSteps == 3

SoloInit ==
    /\ orderByOrderHash = EmptyMap
    /\ dependentOrderHashes = EmptyMap
    /\ orderStateByOrderHashCache = EmptyMap
    /\ callbackIfExists = Undefined
    /\ cleanupJobIntervalIdIfExists = Undefined
    /\ eventWatcherSubscribed = FALSE
    /\ expirationWatcherSubscribed = FALSE
    /\ cleanupTimerActive = FALSE
    /\ expiration = EmptyMap
    /\ balanceStore = EmptyMap
    /\ proxyAllowanceStore = EmptyMap
    /\ filledTakerAmountStore = EmptyMap
    /\ cancelledTakerAmountStore = EmptyMap
    /\ chain = InitialChain
    /\ dispatch = Idle
    /\ sweep = Idle
    /\ nowSec = 0
    /\ envLeft = MaxSoloEnvSteps
    /\ universe = {"h1"}
    /\ rejected = FALSE
    /\ thrown = "none"
    /\ called = NoCall

SoloSpec == SoloInit /\ [][Next]_vars

\* The same watcher with a shorter run of the environment, enough for the
\* clock to reach the expiration of h1 and for one more move.
MaxLiveEnvSteps == 2

LiveInit ==
    /\ orderByOrderHash = EmptyMap
    /\ dependentOrderHashes = EmptyMap
    /\ orderStateByOrderHashCache = EmptyMap
    /\ callbackIfExists = Undefined
    /\ cleanupJobIntervalIdIfExists = Undefined
    /\ eventWatcherSubscribed = FALSE
    /\ expirationWatcherSubscribed = FALSE
    /\ cleanupTimerActive = FALSE
    /\ expiration = EmptyMap
    /\ balanceStore = EmptyMap
    /\ proxyAllowanceStore = EmptyMap
    /\ filledTakerAmountStore = EmptyMap
    /\ cancelledTakerAmountStore = EmptyMap
    /\ chain = InitialChain
    /\ dispatch = Idle
    /\ sweep = Idle
    /\ nowSec = 0
    /\ envLeft = MaxLiveEnvSteps
    /\ universe = {"h1"}
    /\ rejected = FALSE
    /\ thrown = "none"
    /\ called = NoCall

\* The expiration watcher polls on an interval of its own: while an order is
\* due and a subscriber is attached, a turn of its pruning loop comes.
LiveSpec ==
    /\ LiveInit
    /\ [][Next]_vars
    /\ WF_vars(\E reaction \in Reactions : ExpireNext(reaction))

----------------------------------------------------------------------------
\* The data-model invariants

\* C1: every watched hash is indexed under its maker, both for its maker
\* token and for the ZRX token.
C1_WatchedIsIndexed ==
    \A h \in DOMAIN orderByOrderHash :
        LET maker == orderByOrderHash[h].maker
            makerToken == orderByOrderHash[h].makerTokenAddress
        IN  /\ maker \in DOMAIN dependentOrderHashes
            /\ {makerToken, ZRX} \subseteq DOMAIN dependentOrderHashes[maker]
            /\ h \in Members(dependentOrderHashes[maker][makerToken])
            /\ h \in Members(dependentOrderHashes[maker][ZRX])

\* Two orders of one maker are watched, one sold for ZRX and one for another
\* token; they share the maker's ZRX set.
C1_Witness ==
    /\ DOMAIN orderByOrderHash = {"h1", "h2"}
    /\ dependentOrderHashes["A"]["T"] = <<"h1">>
    /\ dependentOrderHashes["A"][ZRX] = <<"h2", "h1">>

\* C2: every order hash that appears anywhere in the dependency index is a
\* key of the watched set.
C2_IndexedIsWatched ==
    \A maker \in DOMAIN dependentOrderHashes :
        \A token \in DOMAIN dependentOrderHashes[maker] :
            Members(dependentOrderHashes[maker][token])
                \subseteq DOMAIN orderByOrderHash

\* h1 has just expired and left the set it shared with h2.
C2_Witness ==
    /\ called.state.error = "OrderFillExpired"
    /\ called.state.orderHash = "h1"
    /\ DOMAIN orderByOrderHash = {"h2"}
    /\ dependentOrderHashes["A"][ZRX] = <<"h2">>

\* C3: the dependency index holds no empty set and no empty inner map.
C3_NoEmptyContainer ==
    \A maker \in DOMAIN dependentOrderHashes :
        /\ DOMAIN dependentOrderHashes[maker] # {}
        /\ \A token \in DOMAIN dependentOrderHashes[maker] :
               Len(dependentOrderHashes[maker][token]) > 0

\* The only order of maker A has just expired; maker B's order stays.
C3_Witness ==
    /\ called.state.error = "OrderFillExpired"
    /\ called.state.orderHash = "h1"
    /\ DOMAIN orderByOrderHash = {"h3"}
    /\ DOMAIN dependentOrderHashes = {"B"}

\* C4: the expiration queue holds exactly the watched hashes, each with its
\* expiration time in milliseconds (expirationUnixTimestampSec * 1000).
C4_QueueMatchesWatched ==
    /\ DOMAIN expiration = DOMAIN orderByOrderHash
    /\ \A h \in DOMAIN orderByOrderHash :
           expiration[h] = orderByOrderHash[h].expirationUnixTimestampSec * 1000

\* h1 was removed by the subscriber while h2's state was delivered; h2 is
\* still enrolled, at 2000 ms.
C4_Witness ==
    /\ called.cb # Undefined
    /\ called.state.orderHash = "h2"
    /\ DOMAIN orderByOrderHash = {"h2"}
    /\ expiration = [h \in {"h2"} |-> 2000]
    /\ universe = {"h1", "h2"}

----------------------------------------------------------------------------
\* Change suppression

\* A step of the event handler's emission loop: the evaluator call it was
\* suspended in has returned.
DispatchResumes == dispatch # Idle /\ dispatch' # dispatch

----------------------------------------------------------------------------
\* The subscription

\* C6: subscribe while a callback is attached throws
\* SubscriptionAlreadyPresent and changes nothing: the attached callback, the
\* listeners and the timer are as they were.
C6_SubscribeWhileRunningThrows ==
    callbackIfExists # Undefined =>
        \A callback \in Callbacks :
            subscribe(Cur, callback) = Throw(Cur, "SubscriptionAlreadyPresent")

\* subscribe has just been refused while cb1 is attached and listening.
C6_Witness ==
    /\ thrown = "SubscriptionAlreadyPresent"
    /\ rejected
    /\ callbackIfExists = "cb1"
    /\ eventWatcherSubscribed /\ expirationWatcherSubscribed /\ cleanupTimerActive

\* C7: unsubscribe while no callback is attached (never subscribed, or
\* already unsubscribed) throws SubscriptionNotFound and leaves the watched
\* set, the index, the memo, the stores and the expiration queue unchanged.
C7_UnsubscribeWhileIdleThrows ==
    callbackIfExists = Undefined =>
        unsubscribe(Cur) = Throw(Cur, "SubscriptionNotFound")

\* unsubscribe has just been refused after an earlier subscription ended,
\* with orders watched and states in the memo.
C7_Witness ==
    /\ thrown = "SubscriptionNotFound"
    /\ rejected
    /\ callbackIfExists = Undefined
    /\ cleanupJobIntervalIdIfExists # Undefined
    /\ DOMAIN orderByOrderHash # {}
    /\ DOMAIN orderStateByOrderHashCache # {}

\* A call of unsubscribe() that returns
UnsubscribeReturns == Unsubscribe /\ thrown' = "none"

\* C8: right after unsubscribe() returns, the four stores are empty, the
\* callback is cleared, both listeners are detached and the timer is stopped.
C8_UnsubscribeTearsDown ==
    [][UnsubscribeReturns =>
          /\ balanceStore' = EmptyMap
          /\ proxyAllowanceStore' = EmptyMap
          /\ filledTakerAmountStore' = EmptyMap
          /\ cancelledTakerAmountStore' = EmptyMap
          /\ callbackIfExists' = Undefined
          /\ ~eventWatcherSubscribed'
          /\ ~expirationWatcherSubscribed'
          /\ ~cleanupTimerActive']_vars

\* The subscription has ended after states were evaluated: nothing is
\* memoized in the stores, nothing listens and no emission is in flight.
C8_Witness ==
    /\ callbackIfExists = Undefined
    /\ cleanupJobIntervalIdIfExists # Undefined
    /\ DOMAIN orderStateByOrderHashCache = {"h1", "h2"}
    /\ DOMAIN balanceStore = {} /\ DOMAIN proxyAllowanceStore = {}
    /\ DOMAIN filledTakerAmountStore = {} /\ DOMAIN cancelledTakerAmountStore = {}
    /\ ~eventWatcherSubscribed /\ ~expirationWatcherSubscribed /\ ~cleanupTimerActive
    /\ dispatch = Idle /\ sweep = Idle
    /\ called = NoCall /\ thrown = "none"

\* C9: unsubscribe() that returns leaves the watched set, the index, the
\* memo and the expiration queue as they were, and a subscribe that follows
\* it succeeds and watches the same orders.
C9_UnsubscribeKeepsOrders ==
    [][UnsubscribeReturns =>
          /\ UNCHANGED <<orderByOrderHash, dependentOrderHashes,
                         orderStateByOrderHashCache, expiration>>
          /\ \A callback \in Callbacks :
                 /\ subscribe(Cur', callback).thrown = "none"
                 /\ subscribe(Cur', callback).callbackIfExists = callback
                 /\ subscribe(Cur', callback).orderByOrderHash
                        = orderByOrderHash]_vars

\* A second subscription runs over the orders, the memo and the queue that
\* the first one left.
C9_Witness ==
    /\ callbackIfExists = "cb2"
    /\ DOMAIN orderByOrderHash = {"h1", "h3"}
    /\ DOMAIN expiration = {"h1", "h3"}
    /\ DOMAIN orderStateByOrderHashCache = {"h1", "h3"}
    /\ thrown = "none"

----------------------------------------------------------------------------
\* Laws

\* C10: addOrder(o) twice leaves the watched set, the index, the memo and
\* the expiration queue as one addOrder(o) does.
C10_AddOrderIdempotent ==
    \A signedOrder \in InputOrders :
        LET once == addOrder(Cur, signedOrder)
            twice == addOrder(once, signedOrder)
        IN  /\ twice.orderByOrderHash = once.orderByOrderHash
            /\ twice.dependentOrderHashes = once.dependentOrderHashes
            /\ twice.orderStateByOrderHashCache = once.orderStateByOrderHashCache
            /\ twice.expiration = once.expiration

\* h2 is watched beside h1, with its state in the memo, and adding it again
\* changes nothing.
C10_Witness ==
    /\ DOMAIN orderByOrderHash = {"h1", "h2"}
    /\ "h2" \in DOMAIN orderStateByOrderHashCache
    /\ dependentOrderHashes["A"][ZRX] = <<"h1", "h2">>
    /\ addOrder(Cur, OrderOf["h2"]) = Cur

\* C11: from a state in which the hash of an order is not watched, addOrder
\* of the order followed by removeOrder of its hash restores the watched set,
\* the index, the memo and the expiration queue.
C11_AddRemoveRoundTrip ==
    \A signedOrder \in ValidOrders :
        LET orderHash == getOrderHashHex(signedOrder)
            after == removeOrder(addOrder(Cur, signedOrder), orderHash)
        IN  orderHash \notin DOMAIN orderByOrderHash =>
                /\ after.thrown = "none"
                /\ after.orderByOrderHash = orderByOrderHash
                /\ after.dependentOrderHashes = dependentOrderHashes
                /\ after.orderStateByOrderHashCache = orderStateByOrderHashCache
                /\ after.expiration = expiration

----------------------------------------------------------------------------
\* Expiration

\* Whether orderHash occurs anywhere in the index D
Indexed(D, orderHash) ==
    \E maker \in DOMAIN D : \E token \in DOMAIN D[maker] :
        orderHash \in Members(D[maker][token])

\* C12: when the expiration watcher fires for a watched hash while a
\* callback is attached, the callback is invoked once, with (null, Invalid
\* {hash, OrderFillExpired}), whatever the memo holds for the hash, and the
\* hash has left the watched set, the memo, the index and the queue; fired
\* for a hash that is not watched, the handler delivers and changes nothing.
C12_ExpirationDelivers ==
    \A orderHash \in Hashes : \A reaction \in Reactions :
        LET after == onOrderExpired(Cur, orderHash, reaction)
        IN  IF orderHash \notin DOMAIN orderByOrderHash
            THEN after = Cur
            ELSE callbackIfExists # Undefined =>
                     /\ after.thrown = "none"
                     /\ after.called =
                            [cb |-> callbackIfExists, err |-> "null",
                             state |-> Invalid(orderHash, "OrderFillExpired"),
                             tornDown |-> FALSE]
                     /\ orderHash \notin DOMAIN after.orderByOrderHash
                     /\ orderHash \notin DOMAIN after.orderStateByOrderHashCache
                     /\ ~Indexed(after.dependentOrderHashes, orderHash)
                     /\ orderHash \notin DOMAIN after.expiration

\* h1 has just expired out of a memo that held states for h1 and h2: its
\* expiry was delivered to cb1 and only h2 is left anywhere.
C12_Witness ==
    /\ called = [cb |-> "cb1", err |-> "null",
                 state |-> Invalid("h1", "OrderFillExpired"), tornDown |-> FALSE]
    /\ DOMAIN orderByOrderHash = {"h2"}
    /\ DOMAIN orderStateByOrderHashCache = {"h2"}
    /\ DOMAIN expiration = {"h2"}
    /\ nowSec = 1
    /\ envLeft = 0

----------------------------------------------------------------------------
\* The cleanup sweep

\* A step of the cleanup job's loop: the evaluator call it was suspended in
\* has returned.
SweepResumes == sweep # Idle /\ sweep' # sweep

\* C13: in one cleanup sweep a watched order leads to at most one callback,
\* and to one only if its freshly evaluated OrderState differs from the
\* memo's entry for it.  The sweep evaluates one hash per step, never comes
\* back to a hash it has evaluated, and a state it delivers is the evaluated
\* one, of the hash at hand, different from the memo's.
C13_SweepEmitsOnChangeOnce ==
    [][SweepResumes =>
          /\ sweep.orderHash \notin sweep.keys
          /\ sweep' # Idle =>
                 /\ sweep'.orderHash \in sweep.keys
                 /\ sweep'.keys = sweep.keys \ {sweep'.orderHash}
          /\ (called'.cb # Undefined /\ called'.err = "null") =>
                 /\ called'.state =
                        getOrderState(Cur, sweep.signedOrder, sweep.orderHash, chain)
                 /\ ~ (/\ sweep.orderHash \in DOMAIN orderStateByOrderHashCache
                       /\ orderStateByOrderHashCache[sweep.orderHash] = called'.state)]_vars

\* The sweep has delivered the state of the first order of its snapshot and
\* is suspended at the second; nothing but the sweep has run.
C13_Witness ==
    /\ sweep # Idle
    /\ sweep.keys = {}
    /\ dispatch = Idle
    /\ envLeft = MaxEnvSteps - 1
    /\ nowSec = 0
    /\ called.cb = "cb1"
    /\ called.err = "null"
    /\ called.state.isValid
    /\ called.state.orderHash # sweep.orderHash
    /\ DOMAIN orderByOrderHash = {"h1", "h2"}

----------------------------------------------------------------------------
\* The subscriber's callback

\* C14: the callback is invoked with exactly one argument that is not null:
\* (null, state) or (err, no state).
C14_OneArgumentNonNull ==
    called.cb # Undefined =>
        \/ called.err = "null" /\ called.state # NullState
        \/ called.err # "null" /\ called.state = NullState

\* cb1 has just been handed the error of a chain read that failed in the
\* cleanup sweep, and no state.
C14_Witness ==
    /\ called = [cb |-> "cb1", err |-> "ChainError", state |-> NullState,
                 tornDown |-> TRUE]
    /\ sweep = Idle
    /\ DOMAIN orderByOrderHash # {}

\* C15: whenever the callback is invoked with an error, be it an event
\* source error or a cleanup failure, the watcher is already unsubscribed at
\* the moment of the invocation: the callback reference is cleared, both
\* listeners are detached and the timer is stopped before the subscriber sees
\* the error.
C15_ErrorSeenAfterTeardown ==
    (called.cb # Undefined /\ called.err # "null") => called.tornDown

C17_RejectedAddOrderChangesNothing ==
    \A signedOrder \in InputOrders :
        (~signedOrder.schemaOk \/ ~signedOrder.signatureOk) =>
            LET after == addOrder(Cur, signedOrder)
            IN  /\ after.thrown \in {"SchemaValidationError", "InvalidSignature"}
                /\ after.called = NoCall
                /\ after.orderByOrderHash = orderByOrderHash
                /\ after.dependentOrderHashes = dependentOrderHashes
                /\ after.orderStateByOrderHashCache = orderStateByOrderHashCache
                /\ after.expiration = expiration

\* An order with a bad signature has just been refused by a watcher that
\* has a subscriber and watches h2 only.
C17_Witness ==
    /\ thrown = "InvalidSignature"
    /\ rejected
    /\ called = NoCall
    /\ callbackIfExists # Undefined
    /\ DOMAIN orderByOrderHash = {"h2"}
    /\ DOMAIN expiration = {"h2"}

\* C18: removeOrder(h) for a well-formed hash that is not watched is a
\* no-op: the watched set, the index, the memo, the cache and the expiration
\* queue are unchanged, no error is raised and the subscriber is not invoked.
C18_RemoveUnwatchedIsNoop ==
    \A orderHash \in Hashes \ DOMAIN orderByOrderHash :
        LET after == removeOrder(Cur, orderHash)
        IN  /\ after.thrown = "none"
            /\ after.called = NoCall
            /\ after.orderByOrderHash = orderByOrderHash
            /\ after.dependentOrderHashes = dependentOrderHashes
            /\ after.orderStateByOrderHashCache = orderStateByOrderHashCache
            /\ after.expiration = expiration
            /\ after.balanceStore = balanceStore
            /\ after.proxyAllowanceStore = proxyAllowanceStore
            /\ after.filledTakerAmountStore = filledTakerAmountStore
            /\ after.cancelledTakerAmountStore = cancelledTakerAmountStore

\* A subscribed watcher that watches h1 only, with a state remembered for it
\* and amounts cached, as a call without effect leaves it: h2 of its universe
\* is not watched.
C18_Witness ==
    /\ universe = {"h1", "h2"}
    /\ DOMAIN orderByOrderHash = {"h1"}
    /\ DOMAIN orderStateByOrderHashCache = {"h1"}
    /\ DOMAIN expiration = {"h1"}
    /\ balanceStore # EmptyMap
    /\ callbackIfExists # Undefined
    /\ thrown = "none"
    /\ called = NoCall
    /\ ~rejected

\* C19: when the event source reports an error while a subscriber is
\* attached, the subscriber is invoked with that error and the subscription
\* is torn down: the watcher ends Idle, with no callback, no listener, no
\* timer and an empty cache, also when the subscriber's error callback itself
\* calls unsubscribe().
C19_EventErrorTearsDown ==
    callbackIfExists # Undefined =>
        \A reaction \in Reactions :
            LET after == onEventWatcherCallback(Cur, "EventSourceError", NoLog,
                                                reaction).s
            IN  /\ after.called.cb = callbackIfExists
                /\ after.called.err = "EventSourceError"
                /\ after.called.state = NullState
                /\ TornDown(after)
                /\ after.balanceStore = EmptyMap
                /\ after.proxyAllowanceStore = EmptyMap
                /\ after.filledTakerAmountStore = EmptyMap
                /\ after.cancelledTakerAmountStore = EmptyMap

\* The event source reported an error to cb1, which unsubscribed inside its
\* callback: the handler's own unsubscribe() then found no subscription, and
\* the watcher is Idle with its order still watched.
C19_Witness ==
    /\ called.cb = "cb1"
    /\ called.err = "EventSourceError"
    /\ thrown = "SubscriptionNotFound"
    /\ ~rejected
    /\ callbackIfExists = Undefined
    /\ ~eventWatcherSubscribed
    /\ ~cleanupTimerActive
    /\ DOMAIN orderByOrderHash # {}

\* C20: if the cleanup task raises while the watcher is Running, the watcher
\* automatically unsubscribes, ending Idle with the cache discarded, and the
\* subscriber is invoked with (err, null).  The task raises when a chain read
\* of the evaluator call it awaits fails.
C20_CleanupFailureUnsubscribes ==
    (/\ sweep # Idle
     /\ callbackIfExists # Undefined
     /\ MissesCache(Cur, sweep.signedOrder, sweep.orderHash)) =>
        \A reaction \in Reactions :
            LET r == emitResume(Cur, sweep, chain, TRUE, reaction)
                after == cleanupOnError(r.s, sweep.callback, r.s.thrown, reaction)
            IN  /\ after.called.cb = callbackIfExists
                /\ after.called.err = "ChainError"
                /\ after.called.state = NullState
                /\ TornDown(after)
                /\ after.balanceStore = EmptyMap
                /\ after.proxyAllowanceStore = EmptyMap
                /\ after.filledTakerAmountStore = EmptyMap
                /\ after.cancelledTakerAmountStore = EmptyMap

\* C21: if a chain read fails inside an evaluator call while the watcher is
\* Running, whether the evaluation was started by event dispatch or by
\* cleanup, the error is surfaced to the subscriber as (err, null) and the
\* watcher is automatically unsubscribed.
C21_ChainErrorSurfaced ==
    callbackIfExists # Undefined =>
        /\ (/\ dispatch # Idle
            /\ MissesCache(Cur, dispatch.signedOrder, dispatch.orderHash)) =>
               \A reaction \in Reactions :
                   LET after == emitResume(Cur, dispatch, chain, TRUE, reaction).s
                   IN  /\ after.called.cb = callbackIfExists
                       /\ after.called.err = "ChainError"
                       /\ after.called.state = NullState
                       /\ TornDown(after)
        /\ (/\ sweep # Idle
            /\ MissesCache(Cur, sweep.signedOrder, sweep.orderHash)) =>
               \A reaction \in Reactions :
                   LET r == emitResume(Cur, sweep, chain, TRUE, reaction)
                       after == cleanupOnError(r.s, sweep.callback, r.s.thrown,
                                               reaction)
                   IN  /\ after.called.cb = callbackIfExists
                       /\ after.called.err = "ChainError"
                       /\ after.called.state = NullState
                       /\ TornDown(after)

\* C22: a fatal failure is reported once.  Within one subscription the
\* subscriber is invoked with an error at most once, however event source
\* errors and cleanup failures interleave: a call with an error is the last
\* call of its step, and the step that makes it leaves no subscription
\* behind, so that call is the last thing its subscription sees.
C22_ErrorEndsSubscription ==
    (called.cb # Undefined /\ called.err # "null") =>
        /\ callbackIfExists = Undefined
        /\ ~eventWatcherSubscribed
        /\ ~expirationWatcherSubscribed
        /\ ~cleanupTimerActive

\* A cleanup failure was reported to cb1 while the event handler was
\* suspended in an evaluation: the subscription is gone, the handler's
\* evaluation is still in flight.
C22_Witness ==
    /\ called.cb = "cb1"
    /\ called.err = "ChainError"
    /\ callbackIfExists = Undefined
    /\ dispatch # Idle
    /\ sweep = Idle

UnhandledLogs == {log \in Logs : log.event \in {"undecoded", "UnknownEvent"}}

C24_CacheServesUntilInvalidated ==
    \A a \in Tokens, o \in Addresses :
        LET key == <<a, o>>
            log == [NoLog EXCEPT !.event = "Approval", !.address = a, !.owner = o]
        IN  (eventWatcherSubscribed /\ dispatch = Idle
                /\ key \in DOMAIN proxyAllowanceStore) =>
            /\ \A h \in DOMAIN orderByOrderHash : \A v \in {0, 1} :
                   getOrderState(Cur, orderByOrderHash[h], h,
                                 [chain EXCEPT !.allowance[key] = v])
                       = getOrderState(Cur, orderByOrderHash[h], h, chain)
            /\ LET r == onEventWatcherCallback(Cur, "null", log, Nothing)
               IN  /\ key \notin DOMAIN r.s.proxyAllowanceStore
                   /\ r.task # Idle =>
                        LET h == r.task.orderHash
                            e == emitResume(r.s, r.task, chain, FALSE, Nothing)
                            fresh == getOrderState(
                                         [r.s EXCEPT !.proxyAllowanceStore =
                                             MapSet(@, key, chain.allowance[key])],
                                         r.task.signedOrder, h, chain)
                            again == onEventWatcherCallback(
                                         [e.s EXCEPT !.called = NoCall],
                                         "null", log, Nothing)
                        IN  /\ e.s.proxyAllowanceStore[key] = chain.allowance[key]
                            /\ IF /\ h \in DOMAIN orderStateByOrderHashCache
                                  /\ orderStateByOrderHashCache[h] = fresh
                               THEN e.s.called = NoCall
                               ELSE /\ e.s.called =
                                        [cb |-> callbackIfExists, err |-> "null",
                                         state |-> fresh, tornDown |-> FALSE]
                                    /\ e.s.orderStateByOrderHashCache[h] = fresh
                            /\ (again.task # Idle /\ again.task.orderHash = h) =>
                                   emitResume(again.s, again.task, chain, FALSE,
                                              Nothing).s.called = NoCall

\* h1 was evaluated as valid with allow(T, A) cached, the allowance was then
\* revoked on the chain, and the Approval that reports it has invalidated the
\* entry: the evaluation that will read the chain's 0 is in flight.
C24_Witness ==
    /\ dispatch # Idle
    /\ ~dispatch.unchanged
    /\ dispatch.orderHash = "h1"
    /\ "h1" \in DOMAIN orderStateByOrderHashCache
    /\ orderStateByOrderHashCache["h1"].isValid
    /\ <<"T", "A">> \notin DOMAIN proxyAllowanceStore
    /\ chain.allowance[<<"T", "A">>] = 0
    /\ getOrderState(Cur, dispatch.signedOrder, "h1", chain)
           = Invalid("h1", "InsufficientMakerAllowance")

\* The hashes a suspended emission was handed, in order
Candidates(task) ==
    IF task = Idle THEN <<>> ELSE <<task.orderHash>> \o task.rest

\* D[owner][token], or nothing when the index has no such entry
IndexEntry(owner, token) ==
    IF owner \in DOMAIN dependentOrderHashes
    THEN IF token \in DOMAIN dependentOrderHashes[owner]
         THEN dependentOrderHashes[owner][token]
         ELSE <<>>
    ELSE <<>>

\* C25: dispatching Approval(owner, spender, value) emitted by contract T
\* invalidates exactly the cache entry allow(T, owner), no balance, filled or
\* cancelled entry and no entry of another owner or token, and re-evaluates
\* exactly the orders in D[owner][T], or none when that index entry does not
\* exist.
C25_ApprovalInvalidatesAllowance ==
    eventWatcherSubscribed =>
        \A a \in Tokens, o \in EventAddresses :
            LET log == [NoLog EXCEPT !.event = "Approval", !.address = a, !.owner = o]
                r == onEventWatcherCallback(Cur, "null", log, Nothing)
            IN  /\ r.s = [Cur EXCEPT !.proxyAllowanceStore =
                             [k \in DOMAIN @ \ {<<a, o>>} |-> @[k]] @@ EmptyMap]
                /\ Candidates(r.task) = IndexEntry(o, a)

\* An Approval on T by A has just been dispatched: of the amounts cached for
\* h1 and h2 only allow(T, A) is gone, and h1, the order A has on T, is being
\* re-evaluated.
C25_Witness ==
    /\ dispatch # Idle
    /\ Candidates(dispatch) = <<"h1">>
    /\ <<"T", "A">> \notin DOMAIN proxyAllowanceStore
    /\ <<ZRX, "A">> \in DOMAIN proxyAllowanceStore
    /\ {<<"T", "A">>, <<ZRX, "A">>} \subseteq DOMAIN balanceStore
    /\ "h1" \in DOMAIN filledTakerAmountStore
    /\ "h1" \in DOMAIN cancelledTakerAmountStore

\* C26: dispatching Transfer(from, to, value) emitted by contract T
\* invalidates exactly bal(T, from) and bal(T, to) and re-evaluates exactly
\* the orders in D[from][T]; orders indexed under D[to][T] are not
\* re-evaluated on that account, and when from has no watched order on T no
\* evaluation is started and the subscriber receives no callback.
C26_TransferInvalidatesBothBalances ==
    eventWatcherSubscribed =>
        \A a \in Tokens, f \in EventAddresses, g \in EventAddresses :
            LET log == [NoLog EXCEPT !.event = "Transfer", !.address = a,
                                     !.from = f, !.to = g]
                r == onEventWatcherCallback(Cur, "null", log, Nothing)
            IN  /\ r.s = [Cur EXCEPT !.balanceStore =
                             [k \in DOMAIN @ \ {<<a, f>>, <<a, g>>} |-> @[k]]
                                 @@ EmptyMap]
                /\ Candidates(r.task) = IndexEntry(f, a)
                /\ r.s.called = NoCall
                /\ IndexEntry(f, a) = <<>> => r.task = Idle

\* A Transfer on T from A to B has just been dispatched with the amounts of
\* h1 and h3 cached: bal(T, A) and bal(T, B) are gone, the allowances are
\* not, and only h1, the order of the sender, is being re-evaluated, although
\* h3 is the receiver's order on T.
C26_Witness ==
    /\ dispatch # Idle
    /\ Candidates(dispatch) = <<"h1">>
    /\ IndexEntry("B", "T") = <<"h3">>
    /\ <<"T", "A">> \notin DOMAIN balanceStore
    /\ <<"T", "B">> \notin DOMAIN balanceStore
    /\ {<<"T", "A">>, <<"T", "B">>} \subseteq DOMAIN proxyAllowanceStore
    /\ sweep = Idle

\* C27: dispatching Deposit(owner, value) or Withdrawal(owner, value) emitted
\* by contract T invalidates exactly bal(T, owner) and re-evaluates exactly
\* the orders in D[owner][T], or none when that index entry does not exist.
C27_DepositWithdrawalInvalidateBalance ==
    eventWatcherSubscribed =>
        \A event \in {"Deposit", "Withdrawal"}, a \in Tokens, o \in EventAddresses :
            LET log == [NoLog EXCEPT !.event = event, !.address = a, !.owner = o]
                r == onEventWatcherCallback(Cur, "null", log, Nothing)
            IN  /\ r.s = [Cur EXCEPT !.balanceStore =
                             [k \in DOMAIN @ \ {<<a, o>>} |-> @[k]] @@ EmptyMap]
                /\ Candidates(r.task) = IndexEntry(o, a)

\* The watcher as a Deposit or Withdrawal on ZRX by A leaves it when the
\* amounts of h1 and h2 were cached: only bal(ZRX, A) is gone, and both
\* orders of A, indexed under ZRX, are up for re-evaluation.
C27_Witness ==
    /\ dispatch # Idle
    /\ Len(Candidates(dispatch)) = 2
    /\ Candidates(dispatch) = IndexEntry("A", ZRX)
    /\ <<ZRX, "A">> \notin DOMAIN balanceStore
    /\ <<"T", "A">> \in DOMAIN balanceStore
    /\ {<<"T", "A">>, <<ZRX, "A">>} \subseteq DOMAIN proxyAllowanceStore
    /\ sweep = Idle

\* C28: dispatching LogFill(h) invalidates exactly filled(h) and dispatching
\* LogCancel(h) invalidates exactly cancelled(h), whether or not h is
\* watched; the order h is re-evaluated if and only if h is in W, and no
\* other order is re-evaluated.
C28_FillCancelInvalidateOwnEntry ==
    eventWatcherSubscribed =>
        \A h \in Hashes :
            LET fill == onEventWatcherCallback(
                            Cur, "null",
                            [NoLog EXCEPT !.event = "LogFill", !.orderHash = h],
                            Nothing)
                cancel == onEventWatcherCallback(
                              Cur, "null",
                              [NoLog EXCEPT !.event = "LogCancel", !.orderHash = h],
                              Nothing)
                batch == IF h \in DOMAIN orderByOrderHash THEN <<h>> ELSE <<>>
            IN  /\ fill.s = [Cur EXCEPT !.filledTakerAmountStore =
                                [k \in DOMAIN @ \ {h} |-> @[k]] @@ EmptyMap]
                /\ Candidates(fill.task) = batch
                /\ cancel.s = [Cur EXCEPT !.cancelledTakerAmountStore =
                                  [k \in DOMAIN @ \ {h} |-> @[k]] @@ EmptyMap]
                /\ Candidates(cancel.task) = batch

\* A LogFill for h1 has just been dispatched with the amounts of h1 and h2
\* cached: filled(h1) is gone, cancelled(h1) and the entries of h2 are not,
\* and h1 alone is being re-evaluated.
C28_Witness ==
    /\ dispatch # Idle
    /\ Candidates(dispatch) = <<"h1">>
    /\ DOMAIN filledTakerAmountStore = {"h2"}
    /\ DOMAIN cancelledTakerAmountStore = {"h1", "h2"}
    /\ {<<"T", "A">>, <<ZRX, "A">>} \subseteq DOMAIN balanceStore
    /\ {<<"T", "A">>, <<ZRX, "A">>} \subseteq DOMAIN proxyAllowanceStore
    /\ sweep = Idle

\* C29: dispatching an Exchange LogError event changes nothing: the cache,
\* the watched set, the index, the memo and the expiration queue are
\* unchanged, no order is re-evaluated, the subscriber is not invoked and
\* nothing is thrown.
C29_LogErrorChangesNothing ==
    eventWatcherSubscribed =>
        LET r == onEventWatcherCallback(Cur, "null",
                                        [NoLog EXCEPT !.event = "LogError"], Nothing)
        IN  r.s = Cur /\ r.task = Idle

\* The watcher as a LogError leaves it at the end of the environment's run:
\* subscribed, with h1 watched, remembered and cached, nothing in flight,
\* nothing thrown and nobody called.
C29_Witness ==
    /\ eventWatcherSubscribed
    /\ envLeft = 0
    /\ dispatch = Idle
    /\ sweep = Idle
    /\ DOMAIN orderByOrderHash = {"h1"}
    /\ DOMAIN orderStateByOrderHashCache = {"h1"}
    /\ <<"T", "A">> \in DOMAIN balanceStore
    /\ "h1" \in DOMAIN filledTakerAmountStore
    /\ chain = InitialChain
    /\ nowSec = 0
    /\ thrown = "none"
    /\ called = NoCall

\* The hashes of a batch that are still watched in s, in order
StillWatched(s, orderHashes) ==
    SelectSeq(orderHashes, LAMBDA h : h \in DOMAIN s.orderByOrderHash)

\* C30: in the emitter's loop a hash that is no longer watched when its turn
\* comes, removed by removeOrder or by expiration while the batch was being
\* dispatched or by the subscriber's callback for an earlier hash of the
\* batch, is skipped silently: no callback for it, no memo entry written for
\* it, no error raised, and the remaining hashes of the batch are still
\* processed.  Stated for the return of an evaluator call to a loop that
\* still has its subscriber.
C30_RemovedHashSkipped ==
    (dispatch # Idle /\ callbackIfExists # Undefined) =>
        \A reaction \in Reactions :
            MayReact(reaction) =>
                LET r == emitResume(Cur, dispatch, chain, FALSE, reaction)
                IN  /\ r.s.thrown = "none"
                    /\ Candidates(r.task) = StillWatched(r.s, dispatch.rest)
                    /\ r.s.called.cb # Undefined =>
                           r.s.called.state.orderHash = dispatch.orderHash
                    /\ \A h \in Hashes \ {dispatch.orderHash} :
                           h \in DOMAIN r.s.orderStateByOrderHashCache =>
                               h \in DOMAIN orderStateByOrderHashCache

\* C31: in every reachable state the memo only has entries for watched
\* orders: M[h] is created on the first emission for h and is gone after
\* removeOrder(h) or the expiration of h, also when the removal happens while
\* an evaluator call for h is in flight.
C31_MemoOnlyForWatched ==
    DOMAIN orderStateByOrderHashCache \subseteq DOMAIN orderByOrderHash

\* What the return of the evaluator call of a suspended loop does to the
\* memo: if the loop calls the subscriber, it is with a state for the hash
\* evaluated that differs from the entry the hash had and is its entry
\* afterwards, unless the hash is removed inside the callback; no entry of
\* another hash, and without a call no entry at all, takes a new value.
EmissionIsMemoized(task) ==
    \A readFails \in BOOLEAN, reaction \in Reactions :
        LET r == emitResume(Cur, task, chain, readFails, reaction)
            h == task.orderHash
            M == orderStateByOrderHashCache
            after == r.s.orderStateByOrderHashCache
        IN  /\ \A g \in DOMAIN after :
                   (g # h \/ r.s.called.cb = Undefined) =>
                       g \in DOMAIN M /\ after[g] = M[g]
            /\ r.s.called.cb # Undefined =>
                   /\ r.s.called.err = "null"
                   /\ r.s.called.state.orderHash = h
                   /\ h \in DOMAIN after => after[h] = r.s.called.state
                   /\ h \in DOMAIN r.s.orderByOrderHash => h \in DOMAIN after
                   /\ h \in DOMAIN M => M[h] # r.s.called.state

\* C32: for every h with a memo entry, M[h] is the OrderState carried by the
\* most recent emitter callback (null, state) for h: an entry takes a new
\* value only where the emitter's loop returns from the evaluation of that
\* hash, and there the new value is the state the callback carries;
\* consequently an emitter callback for h never carries the state M[h] held
\* before it, which is the one the callback before it carried.
C32_MemoIsLastEmission ==
    [][/\ dispatch # Idle => EmissionIsMemoized(dispatch)
       /\ sweep # Idle => EmissionIsMemoized(sweep)
       /\ \A h \in DOMAIN orderStateByOrderHashCache' :
              (IF h \in DOMAIN orderStateByOrderHashCache
               THEN orderStateByOrderHashCache'[h] # orderStateByOrderHashCache[h]
               ELSE TRUE)
                  => \/ DispatchResumes /\ h = dispatch.orderHash
                     \/ SweepResumes /\ h = sweep.orderHash]_vars

\* An emission for h1 has just been delivered at the end of a run of the
\* environment in which the allowance of its maker was revoked: the memo
\* holds what the callback carried, no longer the valid state of before.
C32_Witness ==
    /\ envLeft = 0
    /\ called.cb = "cb1"
    /\ called.err = "null"
    /\ called.state = Invalid("h1", "InsufficientMakerAllowance")
    /\ "h1" \in DOMAIN orderStateByOrderHashCache
    /\ orderStateByOrderHashCache["h1"] = called.state
    /\ chain = [InitialChain EXCEPT !.allowance[<<"T", "A">>] = 0]
    /\ nowSec = 0

----------------------------------------------------------------------------
\* Cleanup and event dispatch

\* C33: a cleanup sweep and the dispatch of an event never interleave:
\* between the start and the end of a sweep no event is dispatched, and no
\* step of a sweep runs while the emissions of an event are pending; in
\* every state at most one of the two loops is suspended in an evaluation.
C33_SweepExcludesDispatch ==
    ~(dispatch # Idle /\ sweep # Idle)

WithoutEntries(keys, orderHash) ==
    [Cur EXCEPT
        !.balanceStore = [k \in DOMAIN @ \ keys |-> @[k]] @@ EmptyMap,
        !.proxyAllowanceStore = [k \in DOMAIN @ \ keys |-> @[k]] @@ EmptyMap,
        !.filledTakerAmountStore = [k \in DOMAIN @ \ {orderHash} |-> @[k]] @@ EmptyMap,
        !.cancelledTakerAmountStore = [k \in DOMAIN @ \ {orderHash} |-> @[k]] @@ EmptyMap]

\* The (token, owner) pairs the ZRX fees of an order add
FeeKeys(signedOrder) ==
    (IF signedOrder.makerFee > 0
     THEN {<<getZRXTokenAddress, signedOrder.maker>>} ELSE {})
        \cup (IF signedOrder.takerFee > 0
              THEN {<<getZRXTokenAddress, signedOrder.taker>>} ELSE {})

----------------------------------------------------------------------------
\* Frame of the watched set and the index

\* s has the watched set and the index of the current state
KeepsOrders(s) ==
    /\ s.orderByOrderHash = orderByOrderHash
    /\ s.dependentOrderHashes = dependentOrderHashes

\* What a subscriber does in its callback, short of removing an order
PassiveReactions == {reaction \in Reactions : reaction.do # "removeOrder"}

\* C36: W and D are modified only by addOrder and removeOrder, the
\* removeOrder of the expiration path included: subscribe and unsubscribe,
\* whether they return or throw, the dispatch of an event of every kind or
\* of an error of the event source, the resumption of the emitter's loop
\* with its callback, and a cleanup sweep with its failure path leave W and
\* D unchanged.
C36_OnlyAddAndRemoveTouchOrders ==
    /\ \A callback \in Callbacks : KeepsOrders(subscribe(Cur, callback))
    /\ KeepsOrders(unsubscribe(Cur))
    /\ \A log \in Logs :
           KeepsOrders(onEventWatcherCallback(Cur, "null", log, Nothing).s)
    /\ \A reaction \in PassiveReactions :
           /\ KeepsOrders(onEventWatcherCallback(Cur, "EventSourceError", NoLog,
                                                 reaction).s)
           /\ \A orderHash \in Hashes :
                  KeepsOrders(cleanupFrom(Cur, orderHash, {}, callbackIfExists,
                                          reaction).s)
           /\ \A callback \in Callbacks :
                  KeepsOrders(cleanupOnError(Cur, callback, "ChainError", reaction))
           /\ \A readFails \in BOOLEAN :
                  /\ dispatch # Idle =>
                         KeepsOrders(emitResume(Cur, dispatch, chain, readFails,
                                                reaction).s)
                  /\ sweep # Idle =>
                         KeepsOrders(emitResume(Cur, sweep, chain, readFails,
                                                reaction).s)

\* h1 and h2 are watched and indexed after a subscription that delivered a
\* state for h1 and was ended by unsubscribe, with a sweep started under it
\* still in flight.
C36_Witness ==
    /\ DOMAIN orderByOrderHash = {"h1", "h2"}
    /\ Len(IndexEntry("A", ZRX)) = 2
    /\ callbackIfExists = Undefined
    /\ cleanupJobIntervalIdIfExists # Undefined
    /\ "h1" \in DOMAIN orderStateByOrderHashCache
    /\ sweep # Idle
    /\ dispatch = Idle
    /\ envLeft = 0

----------------------------------------------------------------------------
\* Liveness of expiration

\* expirationMs(h) - safetyMarginMs <= now, for an h in the queue
Due(h) ==
    /\ h \in DOMAIN expiration
    /\ expiration[h] - ExpirationMarginMs <= nowSec * milisecondsInASecond

\* The expiry of h has just been delivered and h is no longer watched.
ExpiryDelivered(h) ==
    /\ called.cb # Undefined
    /\ called.err = "null"
    /\ called.state = Invalid(h, "OrderFillExpired")
    /\ h \notin DOMAIN orderByOrderHash

\* h has left W, by its expiry delivered to the subscriber or by a removal
\* that delivered no expiry.
ExpiredOrRemoved(h) ==
    \/ ExpiryDelivered(h)
    \/ h \notin DOMAIN orderByOrderHash /\ called.state.error # "OrderFillExpired"

\* C37: liveness of expiration.  Under fair turns of the expiration watcher,
\* once the watched order h1 is due while a subscriber is attached, the
\* subscriber receives (null, Invalid{h1, OrderFillExpired}) with h1 out of
\* W, unless before that h1 is removed or the subscription ends (a run that
\* ends in a rejected call goes on as the run from the state the call was
\* made in).  While no subscriber is attached no expiry is delivered, and
\* the queue keeps the entry of every order that stays watched.
C37_ExpirationIsLive ==
    /\ (callbackIfExists # Undefined /\ "h1" \in DOMAIN orderByOrderHash /\ Due("h1"))
           ~> (ExpiredOrRemoved("h1") \/ callbackIfExists = Undefined \/ rejected)
    /\ [][(callbackIfExists = Undefined /\ callbackIfExists' = Undefined) =>
              /\ called'.state.error # "OrderFillExpired"
              /\ \A h \in DOMAIN expiration :
                     h \in DOMAIN orderByOrderHash' => h \in DOMAIN expiration']_vars

\* h1 was due under a subscription and its expiry has been delivered to cb1,
\* which is still attached; nothing is watched or queued any more.
C37_Witness ==
    /\ ExpiryDelivered("h1")
    /\ called.cb = "cb1"
    /\ callbackIfExists = "cb1"
    /\ nowSec >= 1
    /\ DOMAIN expiration = {}
    /\ DOMAIN orderByOrderHash = {}
    /\ universe = {"h1"}

----------------------------------------------------------------------------
\* Sweeps, removals and subscriptions

\* C38: removing a watched order, by removeOrder or by expiration, while a
\* sweep is suspended does not make the sweep fail.  When the sweep, resumed
\* under the subscription it was started under, comes to a hash of its
\* snapshot that is no longer watched, nothing is thrown, the subscriber
\* receives no error and the subscription is not torn down.
C38_RemovalDoesNotFailSweep ==
    (sweep # Idle /\ callbackIfExists # Undefined /\ sweep.callback = callbackIfExists) =>
        LET r == emitResume(Cur, sweep, chain, FALSE, Nothing)
        IN  \A orderHash \in sweep.keys :
                orderHash \notin DOMAIN orderByOrderHash =>
                    LET n == cleanupFrom(r.s, orderHash, sweep.keys \ {orderHash},
                                         sweep.callback, Nothing)
                    IN  /\ n.s.thrown = "none"
                        /\ n.s.called.err = "null"
                        /\ n.s.callbackIfExists = callbackIfExists
                        /\ n.s.cleanupTimerActive

\* C39: the failure of a sweep started under one subscription affects only
\* that subscription.  If the user unsubscribed, or unsubscribed and
\* subscribed again with another callback, before the sweep in flight fails
\* on a chain read, the failure neither tears down the subscription that is
\* attached now, nor invokes the old callback, nor raises
\* SubscriptionNotFound.
C39_StaleSweepFailureIsContained ==
    (/\ sweep # Idle
     /\ sweep.callback # callbackIfExists
     /\ MissesCache(Cur, sweep.signedOrder, sweep.orderHash)) =>
        LET r == emitResume(Cur, sweep, chain, TRUE, Nothing)
            e == cleanupOnError(r.s, sweep.callback, r.s.thrown, Nothing)
        IN  /\ e.thrown # "SubscriptionNotFound"
            /\ e.called.cb # sweep.callback
            /\ e.callbackIfExists = callbackIfExists
            /\ e.eventWatcherSubscribed = eventWatcherSubscribed
            /\ e.expirationWatcherSubscribed = expirationWatcherSubscribed
            /\ e.cleanupTimerActive = cleanupTimerActive

\* C40: while no subscriber is attached, from a successful unsubscribe()
\* until the next subscribe(), the cache stays empty on all four sub-stores:
\* an evaluator call that was started before unsubscribe() and completes
\* afterwards populates no cache entry, and no evaluator call is started
\* while no subscriber is attached.
C40_IdleCacheStaysEmpty ==
    [][/\ callbackIfExists' = Undefined =>
              /\ balanceStore' = EmptyMap
              /\ proxyAllowanceStore' = EmptyMap
              /\ filledTakerAmountStore' = EmptyMap
              /\ cancelledTakerAmountStore' = EmptyMap
       /\ callbackIfExists = Undefined =>
              /\ dispatch' # dispatch => dispatch' = Idle
              /\ sweep' # sweep => sweep' = Idle]_vars

====
